---- MODULE Spec2Model ----
(***************************************************************************)
(* SubsBuzz: the ingestion-to-digest pipeline.                             *)
(*                                                                         *)
(*   SpecHistory  src/utils/sb-make-history.py, SubsBuzzHistoryGenerator   *)
(*                .run over a PostgreSQL connection (psycopg2): the        *)
(*                per-day check / delete / fetch / generate / store        *)
(*                sequence, statement by statement, with statement         *)
(*                failures and process crashes.                            *)
(*   SpecWorker   src/services/email-worker/tasks.py and gmail_client.py:  *)
(*                one scheduling pass of generate_daily_digests over the   *)
(*                users and the refresh_oauth_tokens sweep, interleaved    *)
(*                over one TokenStore.                                     *)
(*   SpecFetch    gmail_client.py fetch_emails and the extraction loop of  *)
(*                tasks.py, next to fetch_emails_for_date of               *)
(*                sb-make-history.py: one fetch, message by message.       *)
(*   SpecExtract  content_extractor.py: extract_newsletter_content, from   *)
(*                the search for an online version and its one request to  *)
(*                the quality gate over the lengths of the extracted and   *)
(*                of the naive text; SpecExtractFair adds weak fairness.   *)
(*   SpecThemes   sb-make-history.py, ThematicProcessor: fit scores over   *)
(*                the emails' texts, classification, confidence, merge     *)
(*                into 'Other', ordering, summaries and stored sections,   *)
(*                run twice over the same emails.                          *)
(*   SpecClean    content_extractor.py, _clean_text_content over texts of  *)
(*                a few lines.                                             *)
(*   SpecRate     api-gateway/middleware.py, RateLimitMiddleware.dispatch  *)
(*                over requests of several clients at several instants.    *)
(***************************************************************************)
EXTENDS Integers, Sequences, FiniteSets, TLC

(***************************************************************************)
(* Bounds of the model.                                                    *)
(***************************************************************************)
NumMsgs == 2
MaxJobs == 2
MaxTime == 1
TokenLife == 1
GateSpan == 4
MaxLines == 5
requests_per_minute == 2
MaxRequests == 4

\* The messages a date's mailbox can hold.
Msgs == 1..NumMsgs

\* run() walks over the dates of its --days argument: a date and another
\* date.  run() is invoked for a generation and for a regeneration (or a
\* restart after a crash).
Days == {1, 2}
Runs == {1, 2}

\* src/utils/sb-make-history.py:56-67, predefined_categories.  The history
\* model keeps one named category next to 'Other'.
NamedCats == {"Politics"}
Other == "Other"

\* The categories the analysed message m qualifies for (score > 30): the
\* odd messages of the mailbox are political, the even ones fit no category.
Fit(m) == IF m % 2 = 1 THEN {"Politics"} ELSE {}

\* The users with monitored emails the data server lists: a user and
\* another user.
Users == {1, 2}
NumUsers == Cardinality(Users)

\* tasks.py:282, timedelta(hours=6): the look-ahead of the sweep, in hours.
SweepWindow == 6

\* tasks.py:263, max_retries of refresh_oauth_tokens.
MaxRetries == 3

VARIABLES
    \* ---- email-worker: the TokenStore behind the data server, and the clock
    now,         \* current time, in hours
    tokenStore,  \* per user: the stored OAuth credential
    jobs,        \* passes and sweeps started so far
    \* ---- tasks.py: _generate_daily_digests_async / process_user_emails_async
    ppc,         \* position of the pass
    pidx,        \* index of the user the loop is at
    presults,    \* results
    psettings,   \* per user: what the settings request returned in this pass
    pcalls,      \* per user: calls of process_user_emails_async in this pass
    poauth,      \* oauth_data of the current user
    pcred,       \* credentials of fetch_emails
    presp,       \* the provider's answer to the refresh of fetch_emails
    pemails,     \* number of emails fetch_emails returned
    \* ---- tasks.py: _refresh_oauth_tokens_async
    spc,         \* position of the sweep
    stokens,     \* tokens
    sidx,        \* index of the token the loop is at
    sresults,    \* results
    srefreshed,  \* refreshed
    sresp,       \* the provider's answer to the refresh of the sweep
    sretries,    \* self.request.retries of refresh_oauth_tokens
    sattempted   \* uids for which the sweep called credentials.refresh

workerVars == <<now, tokenStore, jobs, ppc, pidx, presults, psettings, pcalls,
                poauth, pcred, presp, pemails,
                spc, stokens, sidx, sresults, srefreshed, sresp, sretries,
                sattempted>>

VARIABLES
    \* ---- sb-make-history.py: storage and the psycopg2 connection
    db,          \* committed rows of the five tables
    tx,          \* the connection's view: db plus its uncommitted statements
    txAborted,   \* a statement failed and no rollback was issued yet
    \* ---- sb-make-history.py: SubsBuzzHistoryGenerator.run
    hpc,         \* position of run()
    runNo,       \* number of invocations of run() so far
    day,         \* the date being processed (day_offset + 1)
    existing,    \* result of check_existing_digest for this date
    priorId,     \* digest id selected by delete_existing_digest (0: none)
    emails,      \* result of fetch_emails_for_date
    digest_data, \* result of generate_digest_for_date
    todo,        \* rows the running insert loop still has to write
    \* ---- history of the current date's run, read by the properties only
    outcome,     \* what run() printed for this date
    failedAt,    \* where a storage statement of the store step failed
    preRows      \* the date's committed rows when run() started on it

histVars == <<db, tx, txAborted, hpc, runNo, day, existing, priorId, emails,
              digest_data, todo, outcome, failedAt, preRows>>

VARIABLES
    \* ---- gmail_client.py: fetch_emails with the extraction loop of
    \* ---- process_user_emails_async; sb-make-history.py: fetch_emails_for_date
    fwho,        \* the fetch that runs: "worker" or "history"
    fpc,         \* position of the run
    fsenders,    \* monitored_senders / senders
    fexpired,    \* credentials.expired and credentials.refresh_token
    fcalls,      \* provider calls made so far: refresh, list, detail
    fmessages,   \* messages, the answer to the list call
    fidx,        \* index of the message or email the loop is at
    femails,     \* emails
    fgot,        \* indices of the messages whose detail was fetched and parsed
    fprocessed,  \* processed_emails
    fraised      \* indices of the emails whose extraction raised

fetchVars == <<fwho, fpc, fsenders, fexpired, fcalls, fmessages, fidx, femails,
               fgot, fprocessed, fraised>>

VARIABLES
    \* ---- content_extractor.py: ContentExtractor.extract_newsletter_content
    xpc,         \* position of the extraction
    xraw,        \* raw_content
    xsrc,        \* the HTML _extract_from_email_html works on: email, online
    xresp,       \* the answer to the request of the online version
    xfetches,    \* requests of an online version made so far
    xfinal,      \* final_content, the normalized structured result
    xbasic,      \* basic_text, the normalized tag-stripped raw content
    xout         \* the text returned

extractVars == <<xpc, xraw, xsrc, xresp, xfetches, xfinal, xbasic, xout>>

VARIABLES
    \* ---- sb-make-history.py: ThematicProcessor.process_emails_into_themes
    tpc,         \* position of the pipeline
    temails,     \* emails
    tclusters,   \* clusters
    tsummaries,  \* thematic_summaries
    tsections,   \* the thematic_sections rows written
    trun,        \* the generation of the date's digest this is: first, second
    tseed,       \* the string hash seed of the process of the run
    tfirst       \* what the first generation gave

themeVars == <<tpc, temails, tclusters, tsummaries, tsections, trun, tseed, tfirst>>

VARIABLES
    \* ---- content_extractor.py: ContentExtractor._clean_text_content
    cpc,         \* position of the call
    clines,      \* the lines of text
    cout         \* the text returned

cleanVars == <<cpc, clines, cout>>

VARIABLES
    \* ---- api-gateway/middleware.py: RateLimitMiddleware
    rnow,        \* time.time()
    rrequests,   \* self.requests: per client, the times of its counted requests
    radmitted,   \* the counted requests passed to call_next so far
    rlast,       \* the request dispatched last, with the status of its response
    rcount       \* requests dispatched so far

rateVars == <<rnow, rrequests, radmitted, rlast, rcount>>

\* The variables of the specifications of single functions.
unitVars == <<fetchVars, extractVars, themeVars, cleanVars, rateVars>>

notFetchVars == <<histVars, workerVars, extractVars, themeVars, cleanVars, rateVars>>

notExtractVars == <<histVars, workerVars, fetchVars, themeVars, cleanVars, rateVars>>

notThemeVars == <<histVars, workerVars, fetchVars, extractVars, cleanVars, rateVars>>

notCleanVars == <<histVars, workerVars, fetchVars, extractVars, themeVars, rateVars>>

notRateVars == <<histVars, workerVars, fetchVars, extractVars, themeVars, cleanVars>>

vars == <<histVars, workerVars, unitVars>>

NoCalls == [refresh |-> 0, list |-> 0, detail |-> 0]

\* No fetch runs.
FetchIdle ==
    /\ fwho = "worker"
    /\ fpc = "idle"
    /\ fsenders = <<>>
    /\ fexpired = FALSE
    /\ fcalls = NoCalls
    /\ fmessages = <<>>
    /\ fidx = 0
    /\ femails = <<>>
    /\ fgot = {}
    /\ fprocessed = <<>>
    /\ fraised = {}

\* A text, as far as the extraction looks at it: where it comes from and
\* its length.
Text(from, n) == [from |-> from, len |-> n]

NoText == Text("none", 0)

\* A page, as far as the extraction looks at it: what the structural
\* extraction and the tag stripping give for it, and whether it holds a link
\* to an online version.
Html(final, basic, link) == [kind |-> "html", final |-> final, basic |-> basic, link |-> link]

NoHtml == [kind |-> "empty", final |-> NoText, basic |-> NoText, link |-> FALSE]

NoOnlineResponse == [kind |-> "none", status |-> 0, page |-> NoHtml]

\* No extraction runs.
ExtractIdle ==
    /\ xpc = "idle"
    /\ xraw = NoHtml
    /\ xsrc = "none"
    /\ xresp = NoOnlineResponse
    /\ xfetches = 0
    /\ xfinal = NoText
    /\ xbasic = NoText
    /\ xout = NoText

\* A generation's clusters, sections and failed syntheses; none yet.
NoOutcome == [clusters |-> <<>>, sections |-> <<>>, failed |-> {}, seed |-> 0]

\* No thematic pipeline runs.
ThemeIdle ==
    /\ tpc = "idle"
    /\ temails = <<>>
    /\ tclusters = <<>>
    /\ tsummaries = <<>>
    /\ tsections = <<>>
    /\ trun = 1
    /\ tseed = 1
    /\ tfirst = NoOutcome

\* No text is being normalized.
CleanIdle ==
    /\ cpc = "idle"
    /\ clines = <<>>
    /\ cout = <<>>

\* _get_client_ip: the key of a request without any client address.
Unknown == <<"u", "n", "k", "n", "o", "w", "n">>

\* The keys under which the gateway's clients are counted.
ClientKeys == {<<"1">>, <<"2">>, Unknown}

NoRequest == [path |-> "", client |-> <<>>, at |-> 0, status |-> 0]

\* The gateway has served no request.
RateIdle ==
    /\ rnow = 0
    /\ rrequests = [c \in ClientKeys |-> <<>>]
    /\ radmitted = <<>>
    /\ rlast = NoRequest
    /\ rcount = 0

UnitIdle == FetchIdle /\ ExtractIdle /\ ThemeIdle /\ CleanIdle /\ RateIdle

(***************************************************************************)
(* email-worker: credentials (gmail_client.py) and the TokenStore.         *)
(***************************************************************************)
NoToken == [present |-> FALSE, access |-> "", refresh |-> "none", expires_at |-> 0]

StoredToken(r, e) == [present |-> TRUE, access |-> "A0", refresh |-> r, expires_at |-> e]

\* The credentials a user can start with: none; expired with and without a
\* refresh token; expiring inside the sweep's window; expiring beyond it.
InitTokens ==
    {NoToken, StoredToken("R0", 0), StoredToken("none", 0),
     StoredToken("R0", SweepWindow \div 2), StoredToken("R0", SweepWindow + 1)}

\* GmailClient._create_credentials.
CreateCredentials(o) ==
    [token |-> o.access, refresh_token |-> o.refresh, expiry |-> o.expires_at]

\* credentials.expired.
CredExpired(c, t) == c.expiry <= t

\* fetch_emails: a refresh that no expiry asks for.
NeedsRefreshAlways(c, t) == c.refresh_token # "none"

\* fetch_emails: if credentials.expired and credentials.refresh_token.
NeedsRefresh(c, t) == CredExpired(c, t) /\ c.refresh_token # "none"

\* The provider's answers to a refresh: a new access token with or without a
\* new refresh token, a rejection (revoked grant), a transport error.
Responses ==
    {[ok |-> TRUE, access |-> "A1", refresh |-> r, err |-> ""] : r \in {"none", "R1"}}
    \cup {[ok |-> FALSE, access |-> "", refresh |-> "none", err |-> e] :
             e \in {"refresh-rejected", "transport-error"}}

NoResponse == [ok |-> FALSE, access |-> "", refresh |-> "none", err |-> ""]

\* credentials.refresh(request), answered by resp at time t: the new access
\* token and expiry; the refresh token of the answer, or the one held before
\* when the answer carries none.
CredentialsRefresh(c, resp, t) ==
    [token |-> resp.access,
     refresh_token |-> IF resp.refresh = "none" THEN c.refresh_token ELSE resp.refresh,
     expiry |-> t + TokenLife]

\* Token data that leaves the refresh token out.
RefreshedTokenDataNoRefresh(c) ==
    [access_token |-> c.token, refresh_token |-> "none", expires_at |-> c.expiry]

\* refreshed_token_data of fetch_emails, updated_data of refresh_oauth_token.
RefreshedTokenData(c) ==
    [access_token |-> c.token, refresh_token |-> c.refresh_token, expires_at |-> c.expiry]

NoTokenData == [access_token |-> "", refresh_token |-> "none", expires_at |-> 0]

\* save_token_callback and the sweep: PATCH /api/storage/oauth-token/{uid}.
PatchToken(store, u, data) ==
    [store EXCEPT ![u] = [present |-> TRUE, access |-> data.access_token,
                          refresh |-> data.refresh_token,
                          expires_at |-> data.expires_at]]

(***************************************************************************)
(* tasks.py: _generate_daily_digests_async and process_user_emails_async.  *)
(***************************************************************************)
passVars == <<ppc, pidx, presults, psettings, pcalls, poauth, pcred, presp,
              pemails>>

sweepVars == <<spc, stokens, sidx, sresults, srefreshed, sresp, sretries,
               sattempted>>

NoCred == CreateCredentials(NoToken)

\* The result of a run of process_user_emails_async that made no digest.
NoEmailsResult == [emails_processed |-> 0, digest_created |-> FALSE]

\* An except clause that records nothing for the user.
OnUserErrorDropped(res, u, e) == res

\* _generate_daily_digests_async: except Exception, the user's error entry.
OnUserError(res, u, e) ==
    Append(res, [user_id |-> u, status |-> "error", error |-> e,
                 emails_processed |-> 0, digest_created |-> FALSE])

\* _generate_daily_digests_async: the user's success entry.
OnUserSuccess(res, u, result) ==
    Append(res, [user_id |-> u, status |-> "success", error |-> "",
                 emails_processed |-> result.emails_processed,
                 digest_created |-> result.digest_created])

\* No job has run yet.
WorkerIdle ==
    /\ now = 0
    /\ jobs = 0
    /\ ppc = "idle"
    /\ pidx = 0
    /\ presults = <<>>
    /\ psettings = [u \in Users |-> "unread"]
    /\ pcalls = [u \in Users |-> 0]
    /\ poauth = NoToken
    /\ pcred = NoCred
    /\ presp = NoResponse
    /\ pemails = 0
    /\ spc = "idle"
    /\ stokens = <<>>
    /\ sidx = 0
    /\ sresults = <<>>
    /\ srefreshed = NoTokenData
    /\ sresp = NoResponse
    /\ sretries = 0
    /\ sattempted = {}

WorkerInit ==
    /\ tokenStore \in [Users -> InitTokens]
    /\ WorkerIdle

\* The locals of one user's run are dead once the run has returned or raised.
PResetUser ==
    /\ poauth' = NoToken
    /\ pcred' = NoCred
    /\ presp' = NoResponse
    /\ pemails' = 0

\* _generate_daily_digests_async: the loop goes on to the next user, or the
\* pass returns its results after the last one.
PLoop ==
    /\ IF pidx < NumUsers
       THEN /\ pidx' = pidx + 1
            /\ ppc' = "settings"
       ELSE /\ pidx' = pidx
            /\ ppc' = "done"
    /\ PResetUser

\* process_user_emails_async returned result: the success entry, loop on.
PReturn(result) ==
    /\ presults' = OnUserSuccess(presults, pidx, result)
    /\ PLoop

\* The user's run raised e: the error entry, loop on.
PRaise(e) ==
    /\ presults' = OnUserError(presults, pidx, e)
    /\ PLoop

\* generate_daily_digests: the users request succeeded; the loop starts.
PStart ==
    /\ ppc \in {"idle", "done", "raised"}
    /\ jobs < MaxJobs
    /\ jobs' = jobs + 1
    /\ ppc' = "settings"
    /\ pidx' = 1
    /\ presults' = <<>>
    /\ psettings' = [u \in Users |-> "unread"]
    /\ pcalls' = [u \in Users |-> 0]
    /\ PResetUser
    /\ UNCHANGED <<now, tokenStore, sweepVars, histVars, unitVars>>

\* generate_daily_digests: the users request raised; the pass raises.
PUsersFail ==
    /\ ppc \in {"idle", "done", "raised"}
    /\ jobs < MaxJobs
    /\ jobs' = jobs + 1
    /\ ppc' = "raised"
    /\ pidx' = 0
    /\ presults' = <<>>
    /\ psettings' = [u \in Users |-> "unread"]
    /\ pcalls' = [u \in Users |-> 0]
    /\ PResetUser
    /\ UNCHANGED <<now, tokenStore, sweepVars, histVars, unitVars>>

\* The user's settings request: daily digest enabled (the user's run
\* starts), disabled (continue), or an error.
PSettings ==
    /\ ppc = "settings"
    /\ \E r \in {"enabled", "disabled", "error"} :
          /\ psettings' = [psettings EXCEPT ![pidx] = r]
          /\ CASE r = "enabled" ->
                    /\ ppc' = "monitored"
                    /\ pcalls' = [pcalls EXCEPT ![pidx] = @ + 1]
                    /\ UNCHANGED <<pidx, presults, poauth, pcred, presp, pemails>>
               [] r = "disabled" ->
                    /\ PLoop
                    /\ UNCHANGED <<pcalls, presults>>
               [] r = "error" ->
                    /\ PRaise("settings")
                    /\ pcalls' = pcalls
    /\ UNCHANGED <<now, tokenStore, jobs, sweepVars, histVars, unitVars>>

\* process_user_emails_async: the monitored-emails request: active senders,
\* none active, or an error.
PMonitored ==
    /\ ppc = "monitored"
    /\ \/ /\ ppc' = "oauth"
          /\ UNCHANGED <<pidx, presults, poauth, pcred, presp, pemails>>
       \/ PReturn(NoEmailsResult)
       \/ PRaise("monitored")
    /\ UNCHANGED <<psettings, pcalls>>
    /\ UNCHANGED <<now, tokenStore, jobs, sweepVars, histVars, unitVars>>

\* process_user_emails_async: the oauth-token request: a token, no token (a
\* normal return), or an error.
POAuth ==
    /\ ppc = "oauth"
    /\ \/ /\ tokenStore[pidx].present
          /\ poauth' = tokenStore[pidx]
          /\ ppc' = "cred"
          /\ UNCHANGED <<pidx, presults, pcred, presp, pemails>>
       \/ /\ ~tokenStore[pidx].present
          /\ PReturn(NoEmailsResult)
       \/ PRaise("oauth")
    /\ UNCHANGED <<psettings, pcalls>>
    /\ UNCHANGED <<now, tokenStore, jobs, sweepVars, histVars, unitVars>>

\* fetch_emails, the credential step: create the credentials and refresh
\* them when needed.  A refresh that raises makes fetch_emails return [],
\* which process_user_emails_async returns as no new emails.
PCred ==
    /\ ppc = "cred"
    /\ LET c == CreateCredentials(poauth) IN
       IF NeedsRefresh(c, now)
       THEN \E resp \in Responses :
               IF resp.ok
               THEN /\ presp' = resp
                    /\ pcred' = CredentialsRefresh(c, resp, now)
                    /\ ppc' = "save"
                    /\ UNCHANGED <<pidx, presults, poauth, pemails>>
               ELSE PReturn(NoEmailsResult)
       ELSE /\ pcred' = c
            /\ ppc' = "list"
            /\ UNCHANGED <<pidx, presults, poauth, presp, pemails>>
    /\ UNCHANGED <<psettings, pcalls>>
    /\ UNCHANGED <<now, tokenStore, jobs, sweepVars, histVars, unitVars>>

\* fetch_emails: save_refreshed_token_callback; a failing PATCH is logged.
PSave ==
    /\ ppc = "save"
    /\ \/ tokenStore' = PatchToken(tokenStore, pidx, RefreshedTokenData(pcred))
       \/ tokenStore' = tokenStore
    /\ ppc' = "list"
    /\ UNCHANGED <<pidx, presults, psettings, pcalls, poauth, pcred, presp, pemails>>
    /\ UNCHANGED <<now, jobs, sweepVars, histVars, unitVars>>

\* fetch_emails: the messages().list call with the credentials and the
\* detail calls; n emails come back.  With expired credentials the call
\* fails and fetch_emails returns [].
PList ==
    /\ ppc = "list"
    /\ \E n \in 0..NumMsgs :
          /\ CredExpired(pcred, now) => n = 0
          /\ IF n = 0
             THEN PReturn(NoEmailsResult)
             ELSE /\ pemails' = n
                  /\ ppc' = "extract"
                  /\ UNCHANGED <<pidx, presults, poauth, pcred, presp>>
    /\ UNCHANGED <<psettings, pcalls>>
    /\ UNCHANGED <<now, tokenStore, jobs, sweepVars, histVars, unitVars>>

\* process_user_emails_async: the extraction loop (k emails survive) and
\* the POST /api/digest/create, which succeeds or raises.
PPost ==
    /\ ppc = "extract"
    /\ \/ \E k \in 0..pemails :
             PReturn([emails_processed |-> k, digest_created |-> TRUE])
       \/ PRaise("digest")
    /\ UNCHANGED <<psettings, pcalls>>
    /\ UNCHANGED <<now, tokenStore, jobs, sweepVars, histVars, unitVars>>

(***************************************************************************)
(* tasks.py: _refresh_oauth_tokens_async, the periodic refresh sweep.      *)
(***************************************************************************)
\* GET /api/storage/oauth-tokens/expiring?before=now+6h: the stored tokens
\* whose expiry lies before the threshold, with their owners.
ExpiringTokens(store, t) ==
    SelectSeq([u \in 1..NumUsers |-> [uid |-> u, tok |-> store[u]]],
              LAMBDA r : r.tok.present /\ r.tok.expires_at < t + SweepWindow)

SweepEntry(uid, status) == [uid |-> uid, status |-> status]

\* The end of one iteration of the sweep's loop with the given status.
SRecord(status) ==
    /\ sresults' = Append(sresults, SweepEntry(stokens[sidx].uid, status))
    /\ srefreshed' = NoTokenData
    /\ IF sidx < Len(stokens)
       THEN /\ sidx' = sidx + 1
            /\ spc' = "refresh"
       ELSE /\ sidx' = sidx
            /\ spc' = "done"

\* _refresh_oauth_tokens_async up to its loop: the expiring-tokens request
\* succeeded.  Nothing after it can make the task raise.
SBegin ==
    /\ stokens' = ExpiringTokens(tokenStore, now)
    /\ sidx' = 1
    /\ sresults' = <<>>
    /\ srefreshed' = NoTokenData
    /\ sresp' = NoResponse
    /\ sattempted' = {}
    /\ sretries' = 0
    /\ spc' = IF ExpiringTokens(tokenStore, now) = <<>> THEN "done" ELSE "refresh"

\* _refresh_oauth_tokens_async: the expiring-tokens request raised, and so
\* does the task, which asks for a retry.
SRaise ==
    /\ stokens' = <<>>
    /\ sidx' = 0
    /\ sresults' = <<>>
    /\ srefreshed' = NoTokenData
    /\ sresp' = NoResponse
    /\ sattempted' = {}
    /\ spc' = "raised"

\* refresh_oauth_tokens: the expiring-tokens request succeeded.
SStart ==
    /\ spc \in {"idle", "done", "raised"}
    /\ jobs < MaxJobs
    /\ jobs' = jobs + 1
    /\ SBegin
    /\ UNCHANGED <<now, tokenStore, passVars, histVars, unitVars>>

\* refresh_oauth_tokens: the expiring-tokens request raised.
SListFail ==
    /\ spc \in {"idle", "done", "raised"}
    /\ jobs < MaxJobs
    /\ jobs' = jobs + 1
    /\ SRaise
    /\ sretries' = 0
    /\ UNCHANGED <<now, tokenStore, passVars, histVars, unitVars>>

\* refresh_oauth_tokens: self.retry(exc=exc) runs the task again while the
\* retries are not used up; the request succeeds this time or raises again.
SRetry ==
    /\ spc = "raised"
    /\ sretries < MaxRetries
    /\ \/ SBegin
       \/ /\ SRaise
          /\ sretries' = sretries + 1
    /\ UNCHANGED <<now, tokenStore, jobs, passVars, histVars, unitVars>>

\* refresh_oauth_token(token_data): None for a token that is not expired;
\* otherwise credentials.refresh, which raises without a refresh token or
\* when the provider fails (None again), or gives the updated token data.
SRefresh ==
    /\ spc = "refresh"
    /\ LET c == CreateCredentials(stokens[sidx].tok) IN
       IF ~CredExpired(c, now)
       THEN /\ SRecord("failed")
            /\ sresp' = NoResponse
            /\ UNCHANGED sattempted
       ELSE /\ sattempted' = sattempted \cup {stokens[sidx].uid}
            /\ IF c.refresh_token = "none"
               THEN /\ SRecord("failed")
                    /\ sresp' = NoResponse
               ELSE \E resp \in Responses :
                       /\ sresp' = resp
                       /\ IF resp.ok
                          THEN /\ srefreshed' =
                                     RefreshedTokenData(CredentialsRefresh(c, resp, now))
                               /\ spc' = "patch"
                               /\ UNCHANGED <<sidx, sresults>>
                          ELSE SRecord("failed")
    /\ UNCHANGED <<stokens, sretries>>
    /\ UNCHANGED <<now, tokenStore, jobs, passVars, histVars, unitVars>>

\* The sweep's PATCH of the refreshed token: stored; answered without
\* success (still reported refreshed); or raised (reported error).
SPatch ==
    /\ spc = "patch"
    /\ \/ /\ tokenStore' = PatchToken(tokenStore, stokens[sidx].uid, srefreshed)
          /\ SRecord("refreshed")
       \/ /\ tokenStore' = tokenStore
          /\ SRecord("refreshed")
       \/ /\ tokenStore' = tokenStore
          /\ SRecord("error")
    /\ sresp' = NoResponse
    /\ UNCHANGED <<stokens, sattempted, sretries>>
    /\ UNCHANGED <<now, jobs, passVars, histVars, unitVars>>

\* Time passes between jobs.
Tick ==
    /\ ppc \in {"idle", "done", "raised"}
    /\ spc \in {"idle", "done", "raised"}
    /\ now < MaxTime
    /\ now' = now + 1
    /\ UNCHANGED <<tokenStore, jobs, passVars, sweepVars, histVars, unitVars>>

WorkerNext ==
    \/ PStart
    \/ PUsersFail
    \/ PSettings
    \/ PMonitored
    \/ POAuth
    \/ PCred
    \/ PSave
    \/ PList
    \/ PPost
    \/ SStart
    \/ SListFail
    \/ SRetry
    \/ SRefresh
    \/ SPatch
    \/ Tick

(***************************************************************************)
(* Storage: the five tables written by sb-make-history.py.  A serial id is *)
(* represented by a number unique per insert; child rows are keyed by the  *)
(* id of the digest they hang under.                                       *)
(***************************************************************************)
EmptyDb ==
    [digests |-> {}, emails |-> {}, tdigests |-> {}, sections |-> {}, links |-> {}]

\* INSERT INTO email_digests ... RETURNING id: a fresh serial id.
DigestId(run, d) == (run - 1) * Cardinality(Days) + d

DigestIdsOf(d, dd) == {r.id : r \in {x \in d.digests : x.day = dd}}

\* All rows of database d that belong to the digests ids.
RowsUnder(d, ids) ==
    [digests  |-> {r \in d.digests  : r.id \in ids},
     emails   |-> {r \in d.emails   : r.did \in ids},
     tdigests |-> {r \in d.tdigests : r.did \in ids},
     sections |-> {r \in d.sections : r.did \in ids},
     links    |-> {r \in d.links    : r.did \in ids}]

IdsOfDay(dd) == {DigestId(r, dd) : r \in Runs}

\* All rows of database d that belong to date dd.
RowsOf(d, dd) == RowsUnder(d, IdsOfDay(dd))

NoRows(r) ==
    /\ r.digests = {} /\ r.emails = {} /\ r.tdigests = {}
    /\ r.sections = {} /\ r.links = {}

(***************************************************************************)
(* ThematicProcessor.perform_nlp_analysis, on emails whose qualifying      *)
(* categories are known: one cluster per category with members, and the    *)
(* emails that qualify for no category in 'Other'.                         *)
(***************************************************************************)
ClusterMembers(des, theme) ==
    IF theme = Other
    THEN {e.msg : e \in {x \in des : x.cats = {}}}
    ELSE {e.msg : e \in {x \in des : theme \in x.cats}}

ClusterThemes(des) ==
    {t \in NamedCats \cup {Other} : ClusterMembers(des, t) # {}}

\* generate_digest_for_date: emails with too little content are skipped,
\* emails whose processing raises are dropped, the others are kept.  The
\* result is None only for an empty input.
NoDigestData == [none |-> TRUE, emails_processed |-> 0, digest_emails |-> {}]

GenerateDigestForDate(fetched, kept) ==
    IF fetched = {} THEN NoDigestData
    ELSE [none |-> FALSE,
          emails_processed |-> Cardinality(kept),
          digest_emails |-> {[msg |-> m, cats |-> Fit(m)] : m \in kept}]

\* The rows a complete store of digest_data under digest id writes
\* (store_digest_in_database followed by store_thematic_digest).
DigestRow(id, dd, dat) == [id |-> id, day |-> dd, n |-> dat.emails_processed]

SectionLinks(id, des, theme) ==
    {[did |-> id, theme |-> theme, msg |-> m] : m \in ClusterMembers(des, theme)}

AllLinks(id, des) ==
    UNION {SectionLinks(id, des, t) : t \in ClusterThemes(des)}

ThematicDigestRow(id, des) ==
    [did |-> id, sc |-> Cardinality(ClusterThemes(des)),
     tse |-> Cardinality(AllLinks(id, des))]

ExpectedRows(id, dd, dat) ==
    [digests  |-> {DigestRow(id, dd, dat)},
     emails   |-> {[did |-> id, msg |-> e.msg] : e \in dat.digest_emails},
     tdigests |-> IF dat.digest_emails = {} THEN {}
                  ELSE {ThematicDigestRow(id, dat.digest_emails)},
     sections |-> {[did |-> id, theme |-> t] : t \in ClusterThemes(dat.digest_emails)},
     links    |-> AllLinks(id, dat.digest_emails)]

(***************************************************************************)
(* SubsBuzzHistoryGenerator.run and the storage functions it calls.        *)
(***************************************************************************)
DelPcs == <<"del1", "del2", "del3", "del4", "del5">>

DelIndex(pc) == CHOOSE i \in 1..5 : DelPcs[i] = pc

\* delete_existing_digest, the k-th DELETE statement, on the connection's view.
DeleteStatement(k, t, id) ==
    CASE k = 1 -> [t EXCEPT !.links =
                     {l \in @ : [did |-> id, msg |-> l.msg] \notin t.emails
                                \/ l.did # id}]
      [] k = 2 -> [t EXCEPT !.sections =
                     {s \in @ : ~(s.did = id /\ \E g \in t.tdigests : g.did = id)}]
      [] k = 3 -> [t EXCEPT !.tdigests = {g \in @ : g.did # id}]
      [] k = 4 -> [t EXCEPT !.emails = {e \in @ : e.did # id}]
      [] k = 5 -> [t EXCEPT !.digests = {r \in @ : r.id # id}]

HistInit ==
    /\ db = EmptyDb
    /\ tx = EmptyDb
    /\ txAborted = FALSE
    /\ hpc = "idle"
    /\ runNo = 0
    /\ day = 1
    /\ existing = FALSE
    /\ priorId = 0
    /\ emails = {}
    /\ digest_data = NoDigestData
    /\ todo = {}
    /\ outcome = "none"
    /\ failedAt = "none"
    /\ preRows = EmptyDb

\* What run() resets when it moves to a date.
EnterDay(d) ==
    /\ day' = d
    /\ existing' = FALSE
    /\ priorId' = 0
    /\ emails' = {}
    /\ digest_data' = NoDigestData
    /\ todo' = {}
    /\ outcome' = "none"
    /\ failedAt' = "none"
    /\ preRows' = RowsOf(db, d)

\* A run() that prints success whatever store_digest_in_database returned.
RunReportAlwaysSuccess(stored) == "success"

\* run(): what is printed for the date after store_digest_in_database
\* returned a digest id (stored) or None.
RunReport(stored) == IF stored THEN "success" ELSE "store_failed"

\* run(): connect_to_database, get_monitored_emails (non-empty), first date.
HStartRun ==
    /\ hpc \in {"idle", "crashed"}
    /\ runNo + 1 \in Runs
    /\ runNo' = runNo + 1
    /\ hpc' = "check"
    /\ tx' = db
    /\ txAborted' = FALSE
    /\ EnterDay(1)
    /\ UNCHANGED db
    /\ UNCHANGED <<workerVars, unitVars>>

\* run(): get_monitored_emails returned nothing, run() returns at once.
HNoMonitored ==
    /\ hpc \in {"idle", "crashed"}
    /\ runNo + 1 \in Runs
    /\ runNo' = runNo + 1
    /\ hpc' = "idle"
    /\ tx' = db
    /\ txAborted' = FALSE
    /\ UNCHANGED <<db, day, existing, priorId, emails, digest_data, todo,
                   outcome, failedAt>>
    /\ UNCHANGED preRows
    /\ UNCHANGED <<workerVars, unitVars>>

\* check_existing_digest: the SELECT succeeds.
HCheckExisting ==
    /\ hpc = "check"
    /\ ~txAborted
    /\ existing' = (DigestIdsOf(tx, day) # {})
    /\ hpc' = IF existing' THEN "del_select" ELSE "fetch"
    /\ UNCHANGED <<db, tx, txAborted, runNo, day, priorId, emails, digest_data,
                   todo, outcome, failedAt>>
    /\ UNCHANGED preRows
    /\ UNCHANGED <<workerVars, unitVars>>

\* check_existing_digest: the SELECT raises; the handler returns False and
\* issues no rollback, so the connection stays in a failed transaction.
HCheckFails ==
    /\ hpc = "check"
    /\ existing' = FALSE
    /\ txAborted' = TRUE
    /\ hpc' = "fetch"
    /\ UNCHANGED <<db, tx, runNo, day, priorId, emails, digest_data, todo,
                   outcome, failedAt>>
    /\ UNCHANGED preRows
    /\ UNCHANGED <<workerVars, unitVars>>

\* delete_existing_digest: SELECT id ... fetchone().
HDelSelect ==
    /\ hpc = "del_select"
    /\ \E id \in DigestIdsOf(tx, day) :
          /\ priorId' = id
          /\ hpc' = "del1"
    /\ UNCHANGED <<db, tx, txAborted, runNo, day, existing, emails, digest_data,
                   todo, outcome, failedAt>>
    /\ UNCHANGED preRows
    /\ UNCHANGED <<workerVars, unitVars>>

\* delete_existing_digest: one DELETE statement.
HDelStmt ==
    /\ hpc \in {DelPcs[i] : i \in 1..5}
    /\ tx' = DeleteStatement(DelIndex(hpc), tx, priorId)
    /\ hpc' = IF DelIndex(hpc) = 5 THEN "del_commit" ELSE DelPcs[DelIndex(hpc) + 1]
    /\ UNCHANGED <<db, txAborted, runNo, day, existing, priorId, emails,
                   digest_data, todo, outcome, failedAt>>
    /\ UNCHANGED preRows
    /\ UNCHANGED <<workerVars, unitVars>>

\* delete_existing_digest: commit.
HDelCommit ==
    /\ hpc = "del_commit"
    /\ db' = tx
    /\ hpc' = "fetch"
    /\ UNCHANGED <<tx, txAborted, runNo, day, existing, priorId, emails,
                   digest_data, todo, outcome, failedAt>>
    /\ UNCHANGED preRows
    /\ UNCHANGED <<workerVars, unitVars>>

\* delete_existing_digest: a statement or the commit raises; the handler
\* rolls back and returns, and run() goes on to fetch.
HDelFails ==
    /\ hpc \in {"del_select", "del_commit"} \cup {DelPcs[i] : i \in 1..5}
    /\ tx' = db
    /\ hpc' = "fetch"
    /\ UNCHANGED <<db, txAborted, runNo, day, existing, priorId, emails,
                   digest_data, todo, outcome, failedAt>>
    /\ UNCHANGED preRows
    /\ UNCHANGED <<workerVars, unitVars>>

\* fetch_emails_for_date: the provider's messages of the date; a failure
\* returns the empty list.  run(): an empty list is reported as no emails.
HFetch ==
    /\ hpc = "fetch"
    /\ \E S \in SUBSET Msgs :
          /\ emails' = S
          /\ hpc' = IF S = {} THEN "report" ELSE "generate"
          /\ outcome' = IF S = {} THEN "no_emails" ELSE outcome
    /\ UNCHANGED <<db, tx, txAborted, runNo, day, existing, priorId,
                   digest_data, todo, failedAt>>
    /\ UNCHANGED preRows
    /\ UNCHANGED <<workerVars, unitVars>>

\* generate_digest_for_date, and run()'s test of its result.
HGenerate ==
    /\ hpc = "generate"
    /\ \E kept \in SUBSET emails :
          /\ digest_data' = GenerateDigestForDate(emails, kept)
          /\ IF digest_data'.none
             THEN /\ hpc' = "report"
                  /\ outcome' = "no_digest"
             ELSE /\ hpc' = "ins_digest"
                  /\ outcome' = outcome
    /\ emails' = {}
    /\ UNCHANGED <<db, tx, txAborted, runNo, day, existing, priorId, todo, failedAt>>
    /\ UNCHANGED preRows
    /\ UNCHANGED <<workerVars, unitVars>>

\* store_digest_in_database: INSERT INTO email_digests.
HInsDigest ==
    /\ hpc = "ins_digest"
    /\ ~txAborted
    /\ tx' = [tx EXCEPT !.digests =
                @ \cup {DigestRow(DigestId(runNo, day), day, digest_data)}]
    /\ todo' = {e.msg : e \in digest_data.digest_emails}
    /\ hpc' = IF todo' = {} THEN "commit1" ELSE "ins_email"
    /\ UNCHANGED <<db, txAborted, runNo, day, existing, priorId, emails,
                   digest_data, outcome, failedAt>>
    /\ UNCHANGED preRows
    /\ UNCHANGED <<workerVars, unitVars>>

\* store_digest_in_database: INSERT INTO digest_emails, one email.
HInsEmail ==
    /\ hpc = "ins_email"
    /\ LET m == CHOOSE x \in todo : \A y \in todo : x <= y IN
          /\ tx' = [tx EXCEPT !.emails =
                      @ \cup {[did |-> DigestId(runNo, day), msg |-> m]}]
          /\ todo' = todo \ {m}
          /\ hpc' = IF todo' = {} THEN "commit1" ELSE "ins_email"
    /\ UNCHANGED <<db, txAborted, runNo, day, existing, priorId, emails,
                   digest_data, outcome, failedAt>>
    /\ UNCHANGED preRows
    /\ UNCHANGED <<workerVars, unitVars>>

\* store_digest_in_database: commit of the digest and its emails.
HCommit1 ==
    /\ hpc = "commit1"
    /\ db' = tx
    /\ hpc' = "thematic"
    /\ UNCHANGED <<tx, txAborted, runNo, day, existing, priorId, emails,
                   digest_data, todo, outcome, failedAt>>
    /\ UNCHANGED preRows
    /\ UNCHANGED <<workerVars, unitVars>>

\* store_digest_in_database: an INSERT or the commit raises (always so in a
\* failed transaction); rollback, return None; run() reports the failure.
HStoreFails ==
    /\ hpc \in {"ins_digest", "ins_email", "commit1"}
    /\ tx' = db
    /\ txAborted' = FALSE
    /\ todo' = {}
    /\ failedAt' = "digest"
    /\ outcome' = RunReport(FALSE)
    /\ hpc' = "report"
    /\ UNCHANGED <<db, runNo, day, existing, priorId, emails, digest_data>>
    /\ UNCHANGED preRows
    /\ UNCHANGED <<workerVars, unitVars>>


\* process_emails_into_themes: no emails raises ValueError, which
\* store_digest_in_database catches; otherwise the clusters are built and
\* store_thematic_digest starts.
HThematic ==
    /\ hpc = "thematic"
    /\ IF digest_data.digest_emails = {}
       THEN /\ hpc' = "report"
            /\ outcome' = RunReport(TRUE)
       ELSE /\ hpc' = "th_digest"
            /\ outcome' = outcome
    /\ UNCHANGED <<db, tx, txAborted, runNo, day, existing, priorId, emails,
                   digest_data, todo, failedAt>>
    /\ UNCHANGED preRows
    /\ UNCHANGED <<workerVars, unitVars>>

\* store_thematic_digest: INSERT INTO thematic_digests.
HThDigest ==
    /\ hpc = "th_digest"
    /\ tx' = [tx EXCEPT !.tdigests =
                @ \cup {ThematicDigestRow(DigestId(runNo, day), digest_data.digest_emails)}]
    /\ todo' = ClusterThemes(digest_data.digest_emails)
    /\ hpc' = "th_section"
    /\ UNCHANGED <<db, txAborted, runNo, day, existing, priorId, emails,
                   digest_data, outcome, failedAt>>
    /\ UNCHANGED preRows
    /\ UNCHANGED <<workerVars, unitVars>>

\* store_thematic_digest: INSERT one thematic_sections row and the
\* theme_source_emails rows of its source emails.
HThSection ==
    /\ hpc = "th_section"
    /\ \E t \in todo :
          /\ tx' = [tx EXCEPT
                      !.sections = @ \cup {[did |-> DigestId(runNo, day), theme |-> t]},
                      !.links = @ \cup SectionLinks(DigestId(runNo, day),
                                                    digest_data.digest_emails, t)]
          /\ todo' = todo \ {t}
          /\ hpc' = IF todo' = {} THEN "th_commit" ELSE "th_section"
    /\ UNCHANGED <<db, txAborted, runNo, day, existing, priorId, emails,
                   digest_data, outcome, failedAt>>
    /\ UNCHANGED preRows
    /\ UNCHANGED <<workerVars, unitVars>>

\* store_thematic_digest: commit.
HThCommit ==
    /\ hpc = "th_commit"
    /\ db' = tx
    /\ outcome' = RunReport(TRUE)
    /\ hpc' = "report"
    /\ UNCHANGED <<tx, txAborted, runNo, day, existing, priorId, emails,
                   digest_data, todo, failedAt>>
    /\ UNCHANGED preRows
    /\ UNCHANGED <<workerVars, unitVars>>

\* store_thematic_digest: a statement or the commit raises; rollback and
\* return 999; store_digest_in_database still returns digest_id.
HThFails ==
    /\ hpc \in {"th_digest", "th_section", "th_commit"}
    /\ tx' = db
    /\ todo' = {}
    /\ failedAt' = "thematic"
    /\ outcome' = RunReport(TRUE)
    /\ hpc' = "report"
    /\ UNCHANGED <<db, txAborted, runNo, day, existing, priorId, emails,
                   digest_data>>
    /\ UNCHANGED preRows
    /\ UNCHANGED <<workerVars, unitVars>>

\* run(): the next date, or verify_completion and return.
HNextDay ==
    /\ hpc = "report"
    /\ IF day + 1 \in Days
       THEN /\ hpc' = "check"
            /\ EnterDay(day + 1)
       ELSE /\ hpc' = "idle"
            /\ UNCHANGED <<day, existing, priorId, emails, digest_data, todo,
                           outcome, failedAt, preRows>>
    /\ UNCHANGED <<db, tx, txAborted, runNo>>
    /\ UNCHANGED <<workerVars, unitVars>>

\* The process dies: the connection is lost with its uncommitted statements.
HCrash ==
    /\ hpc \notin {"idle", "crashed"}
    /\ hpc' = "crashed"
    /\ tx' = db
    /\ txAborted' = FALSE
    /\ priorId' = 0
    /\ emails' = {}
    /\ digest_data' = NoDigestData
    /\ todo' = {}
    /\ outcome' = "none"
    /\ failedAt' = "none"
    /\ UNCHANGED <<db, runNo, day, existing>>
    /\ UNCHANGED preRows
    /\ UNCHANGED <<workerVars, unitVars>>

HistNext ==
    \/ HStartRun \/ HNoMonitored
    \/ HCheckExisting \/ HCheckFails
    \/ HDelSelect \/ HDelStmt \/ HDelCommit \/ HDelFails
    \/ HFetch \/ HGenerate
    \/ HInsDigest \/ HInsEmail \/ HCommit1 \/ HStoreFails
    \/ HThematic \/ HThDigest \/ HThSection \/ HThCommit \/ HThFails
    \/ HNextDay \/ HCrash

\* The history generator alone; the worker has no credentials and is idle.
HistoryInit ==
    /\ HistInit
    /\ tokenStore = [u \in Users |-> NoToken]
    /\ WorkerIdle
    /\ UnitIdle

SpecHistory == HistoryInit /\ [][HistNext]_vars

\* The email worker alone: digest passes and refresh sweeps interleave.
WorkerOnlyInit ==
    /\ WorkerInit
    /\ HistInit
    /\ UnitIdle

SpecWorker == WorkerOnlyInit /\ [][WorkerNext]_vars

(***************************************************************************)
(* Properties of SpecHistory.                                              *)
(***************************************************************************)
NewId == DigestId(runNo, day)

\* The digest id and all its child rows are in d, as many as its own
\* counters (emails_processed, sections_count, total_source_emails) say.
Complete(d, id) ==
    /\ \E r \in d.digests :
          /\ r.id = id
          /\ Cardinality({e \in d.emails : e.did = id}) = r.n
          /\ r.n > 0 => \E g \in d.tdigests :
                /\ g.did = id
                /\ Cardinality({x \in d.sections : x.did = id}) = g.sc
                /\ Cardinality({x \in d.links : x.did = id}) = g.tse
                /\ g.sc > 0

\* C1: after any sequence of generation runs for one (owner, date), also
\* runs whose existence check or delete step fails, storage holds at most one
\* Digest row for the date, and after a generation whose store step met no
\* storage failure the date's rows are exactly the rows of that generation.
C1_OneDigestPerDate ==
    /\ \A d \in Days : Cardinality(DigestIdsOf(db, d)) <= 1
    /\ (hpc = "report" /\ outcome = "success" /\ failedAt = "none")
          => RowsOf(db, day) = ExpectedRows(NewId, day, digest_data)

\* C2: a crash at any point of the regeneration of a date's Digest leaves
\* either the old Digest with all its rows, as they were, or the complete
\* new Digest alone: never no Digest, never a part of one.
C2_CrashLeavesOldOrNew ==
    (hpc = "crashed" /\ existing)
       => \/ RowsOf(db, day) = preRows
          \/ /\ Complete(db, NewId)
             /\ RowsOf(db, day) = RowsUnder(db, {NewId})

\* C3: when no email survives extraction and processing for the date (none
\* fetched, or every fetched email skipped or failed), no Digest row is
\* created and the date is reported as empty, not as a digest created.
C3_EmptyDayNoDigest ==
    (hpc = "report" /\ digest_data.emails_processed = 0 /\ failedAt = "none")
       => /\ NewId \notin {r.id : r \in db.digests}
          /\ outcome \in {"no_emails", "no_digest"}

\* No step of the run for a date changes a committed row of another date.
OtherDatesUntouched ==
    \A d \in Days \ {day} : RowsOf(db', d) = RowsOf(db, d)

C10_DeleteBeforeInsert ==
    /\ hpc \in {DelPcs[i] : i \in 1..5} \cup {"del_commit"} =>
          LET cur == RowsUnder(tx, {priorId})
              was == RowsUnder(db, {priorId})
          IN  /\ cur.sections # was.sections => cur.links = {}
              /\ cur.emails # was.emails => cur.sections = {}
              /\ cur.digests # was.digests => cur.emails = {}
    /\ hpc \in {"ins_email", "commit1", "thematic", "th_digest", "th_section",
                "th_commit"}
          => RowsOf(tx, day) = RowsUnder(tx, {NewId})
    /\ \A d \in Days : \E id \in IdsOfDay(d) : RowsOf(db, d) = RowsUnder(db, {id})

(***************************************************************************)
(* Properties of the email worker.                                         *)
(***************************************************************************)
\* The step in which the pass writes the refreshed token of user u.
PassWrites(u) == ppc = "save" /\ ppc' = "list" /\ pidx = u

\* The step in which the sweep writes the refreshed token of user u.
SweepWrites(u) == spc = "patch" /\ spc' # "patch" /\ stokens[sidx].uid = u

\* C4: across refreshes and persists for one owner a stored refresh token
\* never goes from a value to absent; when the provider's answer omits the
\* refresh token, the credential returned and the credential written carry
\* the previously known one, and the expiry is in the future.
C4_RefreshTokenKept ==
    [][ /\ \A u \in Users :
              /\ tokenStore[u].refresh # "none" =>
                    tokenStore'[u].present /\ tokenStore'[u].refresh # "none"
              /\ tokenStore'[u] # tokenStore[u] =>
                    /\ PassWrites(u) \/ SweepWrites(u)
                    /\ tokenStore'[u].expires_at > now'
                    /\ PassWrites(u) /\ presp.refresh = "none" =>
                          tokenStore'[u].refresh = poauth.refresh
                    /\ SweepWrites(u) /\ sresp.refresh = "none" =>
                          tokenStore'[u].refresh = stokens[sidx].tok.refresh
        /\ ppc = "cred" /\ ppc' = "save" =>
              /\ pcred'.expiry > now'
              /\ presp'.refresh = "none" => pcred'.refresh_token = poauth.refresh
      ]_vars

\* A stored credential refreshed by an answer that carried no refresh token:
\* new access token, the old refresh token, expiry ahead.
C4_Witness ==
    \E u \in Users :
        /\ tokenStore[u].present
        /\ tokenStore[u].access = "A1"
        /\ tokenStore[u].refresh = "R0"
        /\ tokenStore[u].expires_at > now

\* C5: for every credential the sweep selected (expiry within the 6 hours
\* look-ahead, expired or not) and has gone through, a refresh was
\* attempted.
C5_SweepAttemptsAll ==
    \A i \in 1..Len(sresults) : sresults[i].uid \in sattempted

\* C6: in the digest run a credential whose expiry is in the future goes
\* through the credential step without a call to the token endpoint; the
\* credential used for the fetch is the stored one and the TokenStore is
\* left as it is.
C6_NoRefreshWhenValid ==
    [][ ppc = "cred" /\ ppc' # "cred" /\ poauth.expires_at > now =>
          /\ presp' = NoResponse
          /\ pcred' = CreateCredentials(poauth)
          /\ ppc' = "list"
          /\ tokenStore' = tokenStore
      ]_vars

\* The fetch is about to list messages with a credential that has a refresh
\* token and was not refreshed, its expiry being ahead.
C6_Witness ==
    /\ ppc = "list"
    /\ presp = NoResponse
    /\ pcred = CreateCredentials(poauth)
    /\ pcred.refresh_token # "none"
    /\ pcred.expiry > now
    /\ tokenStore[pidx] = poauth

\* C7: with an expired credential without refresh token the credential step
\* fails with reason expired-no-refresh-token: the user gets an error entry
\* carrying that reason and no message list call is made for the user.
C7_ExpiredNoRefreshSkipped ==
    [][ /\ ppc = "cred" /\ ppc' # "cred"
        /\ poauth.expires_at <= now /\ poauth.refresh = "none"
        => /\ ppc' # "list"
           /\ Len(presults') = Len(presults) + 1
           /\ presults'[Len(presults')].user_id = pidx
           /\ presults'[Len(presults')].status = "error"
           /\ presults'[Len(presults')].error = "expired-no-refresh-token"
      ]_vars

\* The users whose turn in the loop is over.
PFinished(u) == u < pidx \/ (u = pidx /\ ppc = "done")

PEntries(u) == {i \in 1..Len(presults) : presults[i].user_id = u}

SRefreshFails(e) ==
    /\ spc = "refresh"
    /\ sresults' # sresults
    /\ sresp'.err = e

\* C11: a credential refresh that fails with a transport error is tried
\* again (a bounded number of times) instead of being given up; a refresh
\* the provider rejects is not tried again and is reported as failed for
\* the user.
C11_TransportRetriedRejectedNot ==
    [][ /\ SRefreshFails("transport-error") =>
              \/ sidx' = sidx /\ spc' = "refresh" /\ Len(sresults') = Len(sresults)
              \/ spc' = "raised" /\ sretries < MaxRetries
        /\ SRefreshFails("refresh-rejected") =>
              /\ sresults' = Append(sresults, SweepEntry(stokens[sidx].uid, "failed"))
              /\ spc' # "raised"
      ]_vars

(***************************************************************************)
(* gmail_client.py: GmailClient.fetch_emails, and around it the run of     *)
(* process_user_emails_async; sb-make-history.py: fetch_emails_for_date.   *)
(* Addresses are sequences of characters.                                  *)
(***************************************************************************)
Blank == <<" ">>
PaddedNews == <<" ", "n", "@", "x">>
AddrNews == <<"n", "@", "x">>
AddrOtherNews == <<"o", "n", "@", "x">>
AddrElse == <<"z", "@", "x">>

\* The monitored addresses a user can have stored: up to two of a blank
\* entry, a padded address and a plain address.
SenderLists ==
    UNION {[1..n -> {Blank, PaddedNews, AddrNews}] : n \in 0..2}

\* The From addresses of the messages the provider's query returns: a
\* monitored address, an address that contains one, and an unrelated one.
MsgSenders == {AddrNews, AddrOtherNews, AddrElse}

\* The answers of messages().list: up to NumMsgs messages.
ListAnswers ==
    UNION {{[i \in 1..n |-> [id |-> i, sender |-> f[i]]] : f \in [1..n -> MsgSenders]} :
              n \in 0..NumMsgs}

\* str.strip().
RECURSIVE LStrip(_)
LStrip(a) == IF a # <<>> /\ Head(a) = " " THEN LStrip(Tail(a)) ELSE a

RECURSIVE RStrip(_)
RStrip(a) == IF a # <<>> /\ a[Len(a)] = " " THEN RStrip(SubSeq(a, 1, Len(a) - 1)) ELSE a

Strip(a) == RStrip(LStrip(a))

\* The senders that are not empty, unstripped.
ValidSendersNoStrip(ms) == SelectSeq(ms, LAMBDA a : a # <<>>)

\* fetch_emails: valid_senders.
ValidSenders(ms) ==
    SelectSeq([i \in 1..Len(ms) |-> Strip(ms[i])], LAMBDA a : a # <<>>)

\* a in b, of Python strings.
Contains(a, b) ==
    \E i \in 1..(Len(b) - Len(a) + 1) : SubSeq(b, i, i + Len(a) - 1) = a

\* fetch_emails: any(sender in parsed_email.sender for sender in valid_senders).
FromMonitored(sender, valid) ==
    \E j \in 1..Len(valid) : Contains(valid[j], sender)

\* The loop after the except clause of an email: it stops.
BreakAfterError(i, n) == n + 1

\* process_user_emails_async: continue, the loop goes to the next email.
ContinueAfterError(i, n) == i + 1

FetchInit ==
    /\ fwho \in {"worker", "history"}
    /\ fpc = "start"
    /\ fsenders \in SenderLists
    /\ fwho = "history" => fsenders # <<>> /\ \A i \in 1..Len(fsenders) : fsenders[i] = AddrNews
    /\ fexpired \in BOOLEAN
    /\ fwho = "history" => ~fexpired
    /\ fcalls = NoCalls
    /\ fmessages = <<>>
    /\ fidx = 0
    /\ femails = <<>>
    /\ fgot = {}
    /\ fprocessed = <<>>
    /\ fraised = {}

\* process_user_emails_async: no active monitored emails, return.
FActive ==
    /\ fwho = "worker"
    /\ fpc = "start"
    /\ fpc' = IF fsenders = <<>> THEN "returned" ELSE "fetch"
    /\ UNCHANGED <<fwho, fsenders, fexpired, fcalls, fmessages, fidx, femails,
                   fgot, fprocessed, fraised>>
    /\ UNCHANGED notFetchVars

\* fetch_emails: no valid sender, return [].
FEnter ==
    /\ fpc = "fetch"
    /\ fpc' = IF ValidSenders(fsenders) = <<>> THEN "fetched" ELSE "cred"
    /\ UNCHANGED <<fwho, fsenders, fexpired, fcalls, fmessages, fidx, femails,
                   fgot, fprocessed, fraised>>
    /\ UNCHANGED notFetchVars

\* fetch_emails: the credentials, refreshed when expired; a refresh that
\* raises ends the fetch with [].
FCred ==
    /\ fpc = "cred"
    /\ IF fexpired
       THEN /\ fcalls' = [fcalls EXCEPT !.refresh = @ + 1]
            /\ \/ fpc' = "list"
               \/ fpc' = "fetched"
       ELSE /\ fcalls' = fcalls
            /\ fpc' = "list"
    /\ UNCHANGED <<fwho, fsenders, fexpired, fmessages, fidx, femails, fgot,
                   fprocessed, fraised>>
    /\ UNCHANGED notFetchVars

\* fetch_emails: messages().list; an HttpError or no message ends the fetch
\* with [].
FList ==
    /\ fpc = "list"
    /\ fcalls' = [fcalls EXCEPT !.list = @ + 1]
    /\ \/ /\ fpc' = "fetched"
          /\ UNCHANGED <<fmessages, fidx>>
       \/ \E ms \in ListAnswers :
             IF ms = <<>>
             THEN /\ fpc' = "fetched"
                  /\ UNCHANGED <<fmessages, fidx>>
             ELSE /\ fmessages' = ms
                  /\ fidx' = 1
                  /\ fpc' = "detail"
    /\ UNCHANGED <<fwho, fsenders, fexpired, femails, fgot, fprocessed, fraised>>
    /\ UNCHANGED notFetchVars

\* fetch_emails: one turn of the detail loop: messages().get and
\* _parse_gmail_message, then the sender filter; an exception skips the
\* message.
FDetail ==
    /\ fpc = "detail"
    /\ fcalls' = [fcalls EXCEPT !.detail = @ + 1]
    /\ \/ /\ fgot' = fgot \cup {fidx}
          /\ femails' = IF FromMonitored(fmessages[fidx].sender, ValidSenders(fsenders))
                        THEN Append(femails, fmessages[fidx])
                        ELSE femails
       \/ UNCHANGED <<fgot, femails>>
    /\ IF fidx < Len(fmessages)
       THEN /\ fidx' = fidx + 1
            /\ fpc' = "detail"
       ELSE /\ fidx' = 0
            /\ fpc' = "fetched"
    /\ UNCHANGED <<fwho, fsenders, fexpired, fmessages, fprocessed, fraised>>
    /\ UNCHANGED notFetchVars

\* process_user_emails_async: if not emails, return.
FNoEmails ==
    /\ fpc = "fetched"
    /\ IF femails = <<>>
       THEN /\ fpc' = "returned"
            /\ fidx' = fidx
       ELSE /\ fpc' = "extract"
            /\ fidx' = 1
    /\ UNCHANGED <<fwho, fsenders, fexpired, fcalls, fmessages, femails, fgot,
                   fprocessed, fraised>>
    /\ UNCHANGED notFetchVars

\* process_user_emails_async: one turn of the extraction loop:
\* extract_newsletter_content returns or raises.
FExtract ==
    /\ fpc = "extract"
    /\ \/ /\ fprocessed' = Append(fprocessed, femails[fidx])
          /\ fraised' = fraised
          /\ fidx' = fidx + 1
       \/ /\ fprocessed' = fprocessed
          /\ fraised' = fraised \cup {fidx}
          /\ fidx' = ContinueAfterError(fidx, Len(femails))
    /\ fpc' = IF fidx' > Len(femails) THEN "post" ELSE "extract"
    /\ UNCHANGED <<fwho, fsenders, fexpired, fcalls, fmessages, femails, fgot>>
    /\ UNCHANGED notFetchVars

\* process_user_emails_async: POST /api/digest/create returns or raises.
FPost ==
    /\ fpc = "post"
    /\ fpc' \in {"returned", "raised"}
    /\ UNCHANGED <<fwho, fsenders, fexpired, fcalls, fmessages, fidx, femails,
                   fgot, fprocessed, fraised>>
    /\ UNCHANGED notFetchVars

\* fetch_emails_for_date: messages().list; an exception gives [].
FHList ==
    /\ fwho = "history"
    /\ fpc = "start"
    /\ fcalls' = [fcalls EXCEPT !.list = @ + 1]
    /\ \/ /\ fpc' = "returned"
          /\ UNCHANGED <<fmessages, fidx>>
       \/ \E ms \in ListAnswers :
             IF ms = <<>>
             THEN /\ fpc' = "returned"
                  /\ UNCHANGED <<fmessages, fidx>>
             ELSE /\ fmessages' = ms
                  /\ fidx' = 1
                  /\ fpc' = "hdetail"
    /\ UNCHANGED <<fwho, fsenders, fexpired, femails, fgot, fprocessed, fraised>>
    /\ UNCHANGED notFetchVars

\* fetch_emails_for_date: one turn of the detail loop: messages().get, whose
\* exception ends the fetch with []; parse_email_message, whose None skips
\* the message; every parsed message is kept.
FHDetail ==
    /\ fpc = "hdetail"
    /\ fcalls' = [fcalls EXCEPT !.detail = @ + 1]
    /\ \/ /\ femails' = <<>>
          /\ fgot' = fgot
          /\ fidx' = 0
          /\ fpc' = "returned"
       \/ /\ \/ /\ fgot' = fgot \cup {fidx}
                /\ femails' = Append(femails, fmessages[fidx])
             \/ UNCHANGED <<fgot, femails>>
          /\ IF fidx < Len(fmessages)
             THEN /\ fidx' = fidx + 1
                  /\ fpc' = "hdetail"
             ELSE /\ fidx' = 0
                  /\ fpc' = "returned"
    /\ UNCHANGED <<fwho, fsenders, fexpired, fmessages, fprocessed, fraised>>
    /\ UNCHANGED notFetchVars

FetchNext ==
    \/ FActive
    \/ FEnter
    \/ FCred
    \/ FList
    \/ FDetail
    \/ FNoEmails
    \/ FExtract
    \/ FPost
    \/ FHList
    \/ FHDetail

\* One fetch, of the worker or of the history generator.
FetchOnlyInit ==
    /\ FetchInit
    /\ HistInit
    /\ tokenStore = [u \in Users |-> NoToken]
    /\ WorkerIdle
    /\ ExtractIdle
    /\ ThemeIdle
    /\ CleanIdle
    /\ RateIdle

SpecFetch == FetchOnlyInit /\ [][FetchNext]_vars

(***************************************************************************)
(* Properties of the fetch and of the extraction loop.                     *)
(***************************************************************************)
\* Every requested address is empty or made of blanks.
AllBlank(ms) ==
    \A i \in 1..Len(ms) : \A k \in 1..Len(ms[i]) : ms[i][k] = " "

\* C12: the worker's fetch with no sender address, or with blank addresses
\* only, gives the empty sequence without any provider call: no token
\* refresh, no list call, no detail call.
C12_EmptySendersNoCall ==
    fwho = "worker" /\ AllBlank(fsenders) =>
        /\ fcalls = NoCalls
        /\ femails = <<>>
        /\ fpc \in {"start", "fetch", "fetched", "returned"}

\* The fetch has returned for blank addresses and an expired credential, and
\* nothing was called.
C12_Witness ==
    /\ fwho = "worker"
    /\ fpc = "fetched"
    /\ fsenders # <<>> /\ AllBlank(fsenders)
    /\ fexpired
    /\ fcalls = NoCalls
    /\ femails = <<>>

\* The fetch is over.
FetchOver == fpc \in {"fetched", "extract", "post", "returned", "raised"}

\* C13: when the fetch is over, every listed message whose detail was
\* fetched and parsed and whose sender is a requested one is in the result,
\* whatever happened to the other messages.
C13_DetailFailureSkipsOne ==
    FetchOver =>
        \A i \in fgot :
            FromMonitored(fmessages[i].sender, ValidSenders(fsenders)) =>
                \E j \in 1..Len(femails) : femails[j] = fmessages[i]

\* C14: every message in the result of a fetch has a sender that matches one
\* of the requested addresses.
C14_OnlyRequestedSenders ==
    \A j \in 1..Len(femails) :
        FromMonitored(femails[j].sender, ValidSenders(fsenders))

\* The emails among the first n that did not raise, in their order.
RECURSIVE Survivors(_, _, _)
Survivors(es, n, raised) ==
    IF n = 0 THEN <<>>
    ELSE IF n \in raised THEN Survivors(es, n - 1, raised)
         ELSE Append(Survivors(es, n - 1, raised), es[n])

\* C15: an email whose extraction raises is the only one excluded: the
\* processed emails are the fetched ones without those that raised, in the
\* original order, and the run goes on to create the digest.
C15_ExtractionFailureSkipsOne ==
    fwho = "worker" =>
        /\ fpc = "extract" => fprocessed = Survivors(femails, fidx - 1, fraised)
        /\ fpc \in {"post", "raised"} \/ (fpc = "returned" /\ femails # <<>>) =>
              fprocessed = Survivors(femails, Len(femails), fraised)

\* The first of two fetched emails raised; the second is processed and the
\* digest is about to be created.
C15_Witness ==
    /\ fpc = "post"
    /\ Len(femails) = 2
    /\ fraised = {1}
    /\ fprocessed = <<femails[2]>>

(***************************************************************************)
(* content_extractor.py: the end of _extract_from_email_html, where the    *)
(* structured result is weighed against the tag-stripped raw content.      *)
(***************************************************************************)
\* content_extractor.py:245, the length under which the result is too short.
TooShort == 200

\* content_extractor.py:249, the factor 1.5 as a fraction.
FactorNum == 3
FactorDen == 2

\* Lengths around the ends of the rule: next to 0, next to the threshold
\* and next to 1.5 times the threshold.
FinalLens == (0..GateSpan) \cup ((TooShort - GateSpan)..(TooShort + GateSpan))

BasicLens ==
    (0..(2 * GateSpan))
    \cup (((TooShort * FactorNum) \div FactorDen - 2 * GateSpan)
             ..((TooShort * FactorNum) \div FactorDen + 2 * GateSpan))

\* len(basic_text) > len(final_content) * 1.5
SignificantlyLonger(basic, final) == FactorDen * basic.len > FactorNum * final.len

\* _extract_from_email_html, lines 245-251.
QualityGate(final, basic) ==
    IF final.len < TooShort
    THEN IF SignificantlyLonger(basic, final) THEN basic ELSE final
    ELSE final

\* The raw contents of a message: nothing, a plain text, an HTML part with
\* or without a link to its online version.
RawContents ==
    {NoHtml}
    \cup {[kind |-> "plain", final |-> NoText, basic |-> Text("naive", n), link |-> FALSE] :
             n \in {0, TooShort}}
    \cup {Html(Text("structured", s), Text("naive", n), l) :
             s \in FinalLens, n \in BasicLens, l \in BOOLEAN}

\* The pages an online version's address can answer with: an empty page, a
\* long page that links to itself, and two short ones.
Pages ==
    {Html(Text("online structured", 0), Text("online naive", 0), FALSE),
     Html(Text("online structured", TooShort), Text("online naive", TooShort), TRUE),
     Html(Text("online structured", GateSpan), Text("online naive", GateSpan), FALSE),
     Html(Text("online structured", 1), Text("online naive", GateSpan), TRUE)}

\* session.get: an exception, a timeout, or a response with a status and a
\* body.
OnlineResponses ==
    {[kind |-> k, status |-> 0, page |-> NoHtml] : k \in {"exception", "timeout"}}
    \cup {[kind |-> "status", status |-> c, page |-> p] : c \in {200, 404}, p \in Pages}

ExtractInit ==
    /\ xpc = "start"
    /\ xraw \in RawContents
    /\ xsrc = "none"
    /\ xresp = NoOnlineResponse
    /\ xfetches = 0
    /\ xfinal = NoText
    /\ xbasic = NoText
    /\ xout = NoText

\* The body of any response is taken for the online version.
OnlineHtmlAnyStatus(resp) == IF resp.kind = "status" THEN resp.page ELSE NoHtml

\* _try_extract_from_online_version: the HTML it extracts from, if any:
\* the body of a response of status 200.
OnlineHtml(resp) ==
    IF resp.kind = "status" /\ resp.status = 200 THEN resp.page ELSE NoHtml

\* The fetched page is searched for a link to an online version in turn.
AfterOnlineHtmlScanning(page) == IF page.link THEN "fetch" ELSE "converted"

\* _try_extract_from_online_version: the fetched page goes to
\* _extract_from_email_html.
AfterOnlineHtml(page) == "converted"

\* extract_newsletter_content: no content returns '', a plain text returns
\* cleaned, HTML is parsed.
XEnter ==
    /\ xpc = "start"
    /\ IF xraw.kind = "html"
       THEN /\ xpc' = "scan"
            /\ xout' = xout
       ELSE /\ xpc' = "returned"
            /\ xout' = IF xraw.kind = "empty" THEN NoText ELSE xraw.basic
    /\ UNCHANGED <<xraw, xsrc, xresp, xfetches, xfinal, xbasic>>
    /\ UNCHANGED notExtractVars

\* _try_extract_from_online_version: the search for a link; without one it
\* returns None.
XScan ==
    /\ xpc = "scan"
    /\ xpc' = IF xraw.link THEN "fetch" ELSE "email"
    /\ UNCHANGED <<xraw, xsrc, xresp, xfetches, xfinal, xbasic, xout>>
    /\ UNCHANGED notExtractVars

\* _try_extract_from_online_version: the request of the online version.
XFetch ==
    /\ xpc = "fetch"
    /\ \E resp \in OnlineResponses :
          /\ xresp' = resp
          /\ LET html == OnlineHtml(resp) IN
                IF html = NoHtml
                THEN /\ xpc' = "email"
                     /\ UNCHANGED <<xsrc, xfinal, xbasic>>
                ELSE /\ xpc' = AfterOnlineHtml(html)
                     /\ xsrc' = "online"
                     /\ xfinal' = html.final
                     /\ xbasic' = html.basic
    /\ xfetches' = xfetches + 1
    /\ UNCHANGED <<xraw, xout>>
    /\ UNCHANGED notExtractVars

\* extract_newsletter_content: _extract_from_email_html of the email's HTML,
\* up to the conversion to text.
XEmailHtml ==
    /\ xpc = "email"
    /\ xsrc' = "email"
    /\ xfinal' = xraw.final
    /\ xbasic' = xraw.basic
    /\ xpc' = "converted"
    /\ UNCHANGED <<xraw, xresp, xfetches, xout>>
    /\ UNCHANGED notExtractVars

\* _extract_from_email_html returns; an empty text of the online version
\* makes extract_newsletter_content go on with the email's HTML.
XQualityGate ==
    /\ xpc = "converted"
    /\ LET text == QualityGate(xfinal, xbasic) IN
          IF xsrc = "online" /\ text.len = 0
          THEN /\ xpc' = "email"
               /\ xout' = xout
          ELSE /\ xpc' = "returned"
               /\ xout' = text
    /\ UNCHANGED <<xraw, xsrc, xresp, xfetches, xfinal, xbasic>>
    /\ UNCHANGED notExtractVars

ExtractNext ==
    \/ XEnter
    \/ XScan
    \/ XFetch
    \/ XEmailHtml
    \/ XQualityGate

ExtractOnlyInit ==
    /\ ExtractInit
    /\ HistInit
    /\ tokenStore = [u \in Users |-> NoToken]
    /\ WorkerIdle
    /\ FetchIdle
    /\ ThemeIdle
    /\ CleanIdle
    /\ RateIdle

SpecExtract == ExtractOnlyInit /\ [][ExtractNext]_vars

\* The extraction goes on while it can.
SpecExtractFair == SpecExtract /\ WF_vars(ExtractNext)

\* C16: with s and n the lengths of the structured and of the naive text,
\* the text returned has the length of the naive text when s < 200 and
\* n >= 1.5 s (n = 1.5 s included), and the length of the structured text
\* in every other case.
C16_QualityGateAtLeast ==
    xpc = "returned" /\ xsrc # "none" =>
        xout.len = IF /\ xfinal.len < TooShort
                      /\ FactorDen * xbasic.len >= FactorNum * xfinal.len
                   THEN xbasic.len
                   ELSE xfinal.len

(***************************************************************************)
(* sb-make-history.py: ThematicProcessor, from the emails of a digest to   *)
(* the thematic sections.  Texts are sequences of characters.              *)
(***************************************************************************)
\* predefined_categories: three of the nine named categories, and 'Other'.
predefined_categories == <<"Politics", "Business + Finance", "Sports", "Other">>

Categories == {predefined_categories[i] : i \in 1..Len(predefined_categories)}

\* category_keywords: some of the keywords of each of these categories.
category_keywords ==
    [c \in Categories |->
        CASE c = "Politics" -> <<"politics", "vote", "senate">>
          [] c = "Business + Finance" -> <<"business", "vc">>
          [] c = "Sports" -> <<"golf", "team">>
          [] c = "Other" -> <<"other", "mixed", "general">>]

\* The characters of a word.
Spell(w) ==
    CASE w = "hello" -> <<"h", "e", "l", "l", "o">>
      [] w = "vote" -> <<"v", "o", "t", "e">>
      [] w = "Vote" -> <<"V", "o", "t", "e">>
      [] w = "VOTE" -> <<"V", "O", "T", "E">>
      [] w = "senate" -> <<"s", "e", "n", "a", "t", "e">>
      [] w = "politics" -> <<"p", "o", "l", "i", "t", "i", "c", "s">>
      [] w = "golf" -> <<"g", "o", "l", "f">>
      [] w = "team" -> <<"t", "e", "a", "m">>
      [] w = "other" -> <<"o", "t", "h", "e", "r">>
      [] w = "mixed" -> <<"m", "i", "x", "e", "d">>
      [] w = "general" -> <<"g", "e", "n", "e", "r", "a", "l">>
      [] w = "business" -> <<"b", "u", "s", "i", "n", "e", "s", "s">>
      [] w = "vc" -> <<"v", "c">>
      [] w = "tax" -> <<"t", "a", "x">>
      [] w = "Tax" -> <<"T", "a", "x">>
      [] w = "a" -> <<"a">>
      [] w = "b" -> <<"b">>
      [] w = "c" -> <<"c">>
      [] w = "d" -> <<"d">>
      [] w = "e" -> <<"e">>
      [] w = "f" -> <<"f">>
      [] w = "g" -> <<"g">>
      [] w = "News@x" -> <<"N", "e", "w", "s", "@", "x">>
      [] w = "a@x" -> <<"a", "@", "x">>
      [] w = "a@substack" -> <<"a", "@", "s", "u", "b", "s", "t", "a", "c", "k">>
      [] w = "News@substack" -> <<"N", "e", "w", "s", "@", "s", "u", "b", "s", "t", "a", "c", "k">>
      [] w = "washingtonpost" -> <<"w", "a", "s", "h", "i", "n", "g", "t", "o", "n", "p", "o", "s", "t">>
      [] w = "newyorker" -> <<"n", "e", "w", "y", "o", "r", "k", "e", "r">>
      [] w = "media" -> <<"m", "e", "d", "i", "a">>
      [] w = "news" -> <<"n", "e", "w", "s">>
      [] w = "substack" -> <<"s", "u", "b", "s", "t", "a", "c", "k">>
      [] w = "pitchbook" -> <<"p", "i", "t", "c", "h", "b", "o", "o", "k">>
      [] w = "tech" -> <<"t", "e", "c", "h">>

UpperCase == <<"A", "B", "C", "D", "E", "F", "G", "H", "I", "J", "K", "L", "M", "N", "O", "P", "Q", "R", "S", "T", "U", "V", "W", "X", "Y", "Z">>

LowerCase == <<"a", "b", "c", "d", "e", "f", "g", "h", "i", "j", "k", "l", "m", "n", "o", "p", "q", "r", "s", "t", "u", "v", "w", "x", "y", "z">>

\* str.lower(), of one character and of a string.
ToLower ==
    [c \in {UpperCase[i] : i \in 1..Len(UpperCase)} |->
        LowerCase[CHOOSE i \in 1..Len(UpperCase) : UpperCase[i] = c]]

LowerChar(c) == IF c \in DOMAIN ToLower THEN ToLower[c] ELSE c

Lower(t) == [i \in 1..Len(t) |-> LowerChar(t[i])]

\* sep.join(texts).
RECURSIVE Join(_, _)
Join(texts, sep) ==
    IF texts = <<>> THEN <<>>
    ELSE IF Len(texts) = 1 THEN texts[1]
    ELSE texts[1] \o sep \o Join(Tail(texts), sep)

\* The text made of the given words.
Phrase(ws) == Join([i \in 1..Len(ws) |-> Spell(ws[i])], <<" ">>)

Phrases(ps) == [i \in 1..Len(ps) |-> Phrase(ps[i])]

\* An entry of topics or keywords that is not a string: the analysis'
\* JSON answer is checked to hold lists, their entries are not checked.
NotAString == <<"None">>

\* A digest_email of generate_digest_for_date.
DigestEmail(sender, subject, summary, topics, keywords) ==
    [sender |-> sender, subject |-> subject, summary |-> summary,
     topics |-> topics, keywords |-> keywords]

\* The emails a digest can hold:
\*   a greeting of a news outlet on substack, no keyword of any category;
\*   a politics keyword among the keywords and a news outlet: the threshold;
\*   a politics keyword in the subject and in a topic;
\*   three politics keywords in the subject, two sports keywords;
\*   three politics keywords in subject and topic, a news outlet: the cap;
\*   the keywords of 'Other' in the subject;
\*   two sports keywords in the subject and in the topics, five keywords;
\*   a business keyword in the subject, from substack;
\*   an email whose keywords hold an entry that is not a string.
EmailKinds ==
    {DigestEmail(Phrase(<<"News@substack">>), Phrase(<<"hello">>), <<>>,
                 Phrases(<< <<"hello">> >>), <<>>),
     DigestEmail(Phrase(<<"News@x">>), Phrase(<<"hello">>), <<>>,
                 Phrases(<< <<"hello">> >>), Phrases(<< <<"Vote">> >>)),
     DigestEmail(Phrase(<<"a@x">>), Phrase(<<"Vote">>), <<>>,
                 Phrases(<< <<"VOTE">> >>), Phrases(<< <<"tax">> >>)),
     DigestEmail(Phrase(<<"a@x">>), Phrase(<<"vote", "senate", "politics", "golf">>), <<>>,
                 Phrases(<< <<"team">> >>),
                 Phrases(<< <<"tax">>, <<"Tax">>, <<"f">>, <<"g">> >>)),
     DigestEmail(Phrase(<<"News@x">>), Phrase(<<"vote", "senate", "politics">>), <<>>,
                 Phrases(<< <<"vote", "senate", "politics">> >>), <<>>),
     DigestEmail(Phrase(<<"a@x">>), Phrase(<<"other", "mixed", "general">>), <<>>,
                 Phrases(<< <<"hello">> >>), Phrases(<< <<"tax">> >>)),
     DigestEmail(Phrase(<<"a@x">>), Phrase(<<"golf", "team">>), <<>>,
                 Phrases(<< <<"golf">>, <<"team">> >>),
                 Phrases(<< <<"a">>, <<"b">>, <<"c">>, <<"d">>, <<"e">> >>)),
     DigestEmail(Phrase(<<"a@substack">>), Phrase(<<"vc">>), <<>>,
                 Phrases(<< <<"hello">> >>), Phrases(<< <<"Tax">> >>)),
     DigestEmail(Phrase(<<"a@x">>), Phrase(<<"hello">>), <<>>,
                 Phrases(<< <<"hello">> >>), <<NotAString>>)}

\* The id the insert of the run's digest-email row number i returns.
RowId(run, i) == (run - 1) * NumMsgs + i

\* store_digest_in_database: email_data['id'] = email_id.
WithId(e, id) ==
    [id |-> id, sender |-> e.sender, subject |-> e.subject, summary |-> e.summary,
     topics |-> e.topics, keywords |-> e.keywords]

\* digest_emails with the ids store_digest_in_database gave them.
EmailLists ==
    UNION {{[i \in 1..n |-> WithId(f[i], RowId(1, i))] : f \in [1..n -> EmailKinds]} :
              n \in 1..NumMsgs}

Min(a, b) == IF a < b THEN a ELSE b

\* ' '.join(email['topics']) and ' '.join(email['keywords']) raise on an
\* entry that is not a string.
Raises(email) ==
    \/ \E i \in 1..Len(email.topics) : email.topics[i] = NotAString
    \/ \E i \in 1..Len(email.keywords) : email.keywords[i] = NotAString

\* calculate_category_fit_score: email_text.
EmailText(email) ==
    Lower(email.subject \o <<" ">> \o email.summary \o <<" ">>
          \o Join(email.topics, <<" ">>) \o <<" ">> \o Join(email.keywords, <<" ">>))

\* Every keyword found adds 10, wherever it is found.
KeywordScoreFlat(email_text, subject, topics, keyword) ==
    IF Contains(Lower(Spell(keyword)), email_text) THEN 10 ELSE 0

\* calculate_category_fit_score: what the loop adds for one keyword, given
\* email_text and the lower-case subject and topics.
KeywordScore(email_text, subject, topics, keyword) ==
    LET k == Lower(Spell(keyword))
    IN  IF Contains(k, email_text)
        THEN 10
             + (IF Contains(k, subject) THEN 15 ELSE 0)
             + (IF \E i \in 1..Len(topics) : Contains(k, topics[i]) THEN 10 ELSE 0)
        ELSE 0

\* get_sender_category_bonus.
GetSenderCategoryBonus(sender, keywords) ==
    LET sender_lower == Lower(sender)
        AnyIn(xs) == \E i \in 1..Len(xs) : Contains(Spell(xs[i]), sender_lower)
        Has(w) == \E i \in 1..Len(keywords) : keywords[i] = w
    IN  IF /\ AnyIn(<<"washingtonpost", "newyorker", "media", "news">>)
           /\ Has("media") \/ Has("politics")
        THEN 20
        ELSE IF /\ AnyIn(<<"substack", "pitchbook">>)
                /\ Has("business") \/ Has("tech")
             THEN 15
             ELSE 0

RECURSIVE KeywordScores(_, _, _, _)
KeywordScores(email_text, subject, topics, keywords) ==
    IF keywords = <<>> THEN 0
    ELSE KeywordScore(email_text, subject, topics, Head(keywords))
         + KeywordScores(email_text, subject, topics, Tail(keywords))

\* calculate_category_fit_score, with the keywords of the category.
CategoryFitScore(email, category) ==
    LET keywords == category_keywords[category]
        email_text == EmailText(email)
        subject == Lower(email.subject)
        topics == [i \in 1..Len(email.topics) |-> Lower(email.topics[i])]
    IN  Min(100, KeywordScores(email_text, subject, topics, keywords)
                 + GetSenderCategoryBonus(email.sender, keywords))

\* A threshold that lets the score 30 in.
QualifiesFrom30(score) == score >= 30

\* classify_emails_to_category: if score > 30.
Qualifies(score) == score > 30

\* sorted(..., key=..., reverse=True) and list.sort(key=..., reverse=True):
\* by decreasing key, equal keys in their former order.
\* key[i] is the key of q[i].
SortedDesc(q, key) ==
    LET n == Len(q)
        Pos(i) == 1 + Cardinality({j \in 1..n :
                         \/ key[j] > key[i]
                         \/ key[j] = key[i] /\ j < i})
    IN  [p \in 1..n |-> q[CHOOSE i \in 1..n : Pos(i) = p]]

\* classify_emails_to_category.
ClassifyEmailsToCategory(es, category) ==
    LET email_scores ==
            SelectSeq(es, LAMBDA e : Qualifies(CategoryFitScore(e, category)))
    IN  SortedDesc(email_scores,
                   [i \in 1..Len(email_scores) |->
                       CategoryFitScore(email_scores[i], category)])

RECURSIVE TotalScore(_, _)
TotalScore(es, category) ==
    IF es = <<>> THEN 0
    ELSE CategoryFitScore(Head(es), category) + TotalScore(Tail(es), category)

\* round(max(60, min(95, total / n))), round() taking the even neighbour of
\* a half.
RoundClamped(total, n) ==
    IF total >= 95 * n THEN 95
    ELSE IF total <= 60 * n THEN 60
    ELSE LET q == total \div n
             r == total % n
         IN  IF 2 * r < n THEN q
             ELSE IF 2 * r > n THEN q + 1
             ELSE IF q % 2 = 0 THEN q ELSE q + 1

\* calculate_category_confidence.
CalculateCategoryConfidence(es, category) ==
    IF es = <<>> THEN 70 ELSE RoundClamped(TotalScore(es, category), Len(es))

RECURSIVE AllKeywords(_)
AllKeywords(es) ==
    IF es = <<>> THEN <<>> ELSE Head(es).keywords \o AllKeywords(Tail(es))

\* The entries of q, each once, in the order of their first occurrence: the
\* keys of a Counter.
RECURSIVE Distinct(_)
Distinct(q) ==
    IF q = <<>> THEN <<>>
    ELSE LET d == Distinct(SubSeq(q, 1, Len(q) - 1))
             x == q[Len(q)]
         IN  IF \E i \in 1..Len(d) : d[i] = x THEN d ELSE Append(d, x)

Count(q, x) == Cardinality({i \in 1..Len(q) : q[i] = x})

\* most_common(8).
TopKeywords == 8

\* The keywords that tie keep the order the hash of the run gives them.
ExtractClusterKeywordsHashed(es) ==
    LET all == AllKeywords(es)
        keys == Distinct(all)
        hashed == IF tseed = 1 THEN keys
                  ELSE [i \in 1..Len(keys) |-> keys[Len(keys) + 1 - i]]
        ranked == SortedDesc(hashed, [i \in 1..Len(hashed) |-> Count(all, hashed[i])])
    IN  SubSeq(ranked, 1, Min(TopKeywords, Len(ranked)))

\* extract_cluster_keywords: the keywords by decreasing count, those that
\* tie in the order they were first met; the first eight.
ExtractClusterKeywords(es) ==
    LET all == AllKeywords(es)
        keys == Distinct(all)
        ranked == SortedDesc(keys, [i \in 1..Len(keys) |-> Count(all, keys[i])])
    IN  SubSeq(ranked, 1, Min(TopKeywords, Len(ranked)))

Cluster(theme, es, confidence) ==
    [theme |-> theme, emails |-> es, keywords |-> ExtractClusterKeywords(es),
     confidence |-> confidence]

\* perform_nlp_analysis, the loop over the categories.
CategoryClusters(es) ==
    SelectSeq([i \in 1..Len(predefined_categories) |->
                  LET category == predefined_categories[i]
                      category_emails == ClassifyEmailsToCategory(es, category)
                  IN  Cluster(category, category_emails,
                              CalculateCategoryConfidence(category_emails, category))],
              LAMBDA c : c.emails # <<>>)

\* perform_nlp_analysis: unclassified_emails.
Unclassified(es, clusters) ==
    LET classified_ids ==
            UNION {{clusters[i].emails[k].id : k \in 1..Len(clusters[i].emails)} :
                      i \in 1..Len(clusters)}
    IN  SelectSeq(es, LAMBDA e : e.id \notin classified_ids)

\* The unclassified emails are left out.
MergeUnclassifiedDropped(clusters, un) == clusters

\* perform_nlp_analysis: the unclassified emails go to the 'Other' cluster,
\* which is made with confidence 60 when there is none.
MergeUnclassified(clusters, un) ==
    IF un = <<>> THEN clusters
    ELSE IF \E i \in 1..Len(clusters) : clusters[i].theme = "Other"
         THEN [i \in 1..Len(clusters) |->
                  IF clusters[i].theme = "Other"
                  THEN Cluster("Other", clusters[i].emails \o un, clusters[i].confidence)
                  ELSE clusters[i]]
         ELSE Append(clusters, Cluster("Other", un, 60))

\* The clusters in the order of the categories.
SortClustersNot(clusters) == clusters

\* perform_nlp_analysis: clusters.sort by len(emails) * confidence, reverse.
SortClusters(clusters) ==
    SortedDesc(clusters,
               [i \in 1..Len(clusters) |->
                   Len(clusters[i].emails) * clusters[i].confidence])

\* perform_nlp_analysis.
PerformNlpAnalysis(es) ==
    LET clusters == CategoryClusters(es)
    IN  SortClusters(MergeUnclassified(clusters, Unclassified(es, clusters)))

\* generate_thematic_summaries: the fallback summary, made of the number of
\* the cluster's emails, its theme and its first three keywords.
FallbackSummary(cluster) ==
    [kind |-> "template", count |-> Len(cluster.emails), theme |-> cluster.theme,
     topics |-> SubSeq(cluster.keywords, 1, Min(3, Len(cluster.keywords)))]

\* generate_theme_summary: the narrative the synthesis wrote for the theme.
Narrative(cluster) ==
    [kind |-> "narrative", count |-> Len(cluster.emails), theme |-> cluster.theme,
     topics |-> <<>>]

\* generate_theme_summary's result and the fallback of
\* generate_thematic_summaries: both carry the cluster's theme, keywords,
\* confidence and emails.
Summary(cluster, fallback) ==
    [theme |-> cluster.theme,
     summary |-> IF fallback THEN FallbackSummary(cluster) ELSE Narrative(cluster),
     keywords |-> cluster.keywords, confidence |-> cluster.confidence,
     source_emails |-> cluster.emails]

\* The clusters whose synthesis failed get no summary.
GenerateThematicSummariesSkipping(clusters, failed) ==
    LET all == [i \in 1..Len(clusters) |-> [at |-> i, cluster |-> clusters[i]]]
        kept == SelectSeq(all, LAMBDA x : x.at \notin failed)
    IN  [i \in 1..Len(kept) |-> Summary(kept[i].cluster, FALSE)]

\* generate_thematic_summaries: a summary for each cluster, the fallback one
\* for the clusters whose generate_theme_summary raised.
GenerateThematicSummaries(clusters, failed) ==
    [i \in 1..Len(clusters) |-> Summary(clusters[i], i \in failed)]

Max(a, b) == IF a > b THEN a ELSE b

\* round(num / den), round() taking the even neighbour of a half.
RoundHalfEven(num, den) ==
    LET q == num \div den
        r == num % den
    IN  IF 2 * r < den THEN q
        ELSE IF 2 * r > den THEN q + 1
        ELSE IF q % 2 = 0 THEN q ELSE q + 1

\* set(keyword.lower() for keyword in keywords).
KeywordSet(keywords) == {Lower(keywords[i]) : i \in 1..Len(keywords)}

\* The larger set is taken for the smaller one.
CalculateRelevanceScoreMin(email, summary) ==
    LET email_keywords == KeywordSet(email.keywords)
        theme_keywords == KeywordSet(summary.keywords)
        total_keywords == Min(Cardinality(email_keywords), Cardinality(theme_keywords))
        overlap == Cardinality(email_keywords \cap theme_keywords)
    IN  IF email_keywords = {} /\ theme_keywords = {} THEN 50
        ELSE IF total_keywords = 0 THEN 50
        ELSE Max(0, Min(100, RoundHalfEven(overlap * 100, total_keywords)))

\* calculate_relevance_score.
CalculateRelevanceScore(email, summary) ==
    LET email_keywords == KeywordSet(email.keywords)
        theme_keywords == KeywordSet(summary.keywords)
        total_keywords == Max(Cardinality(email_keywords), Cardinality(theme_keywords))
        overlap == Cardinality(email_keywords \cap theme_keywords)
    IN  IF email_keywords = {} /\ theme_keywords = {} THEN 50
        ELSE IF total_keywords = 0 THEN 50
        ELSE Max(0, Min(100, RoundHalfEven(overlap * 100, total_keywords)))

\* store_thematic_digest: the theme_source_emails rows of a summary.
SourceLinks(summary) ==
    {[digest_email_id |-> summary.source_emails[k].id,
      relevance_score |-> CalculateRelevanceScore(summary.source_emails[k], summary)] :
        k \in 1..Len(summary.source_emails)}

\* store_thematic_digest: the thematic_sections row of summaries[i].
SectionRow(summaries, i) ==
    [theme |-> summaries[i].theme, summary |-> summaries[i].summary,
     confidence |-> summaries[i].confidence, keywords |-> summaries[i].keywords,
     order |-> i, links |-> SourceLinks(summaries[i])]

\* The hash seeds a process can start with.
Seeds == {1, 2}

ThemeInit ==
    /\ tpc = "start"
    /\ temails \in EmailLists
    /\ tclusters = <<>>
    /\ tsummaries = <<>>
    /\ tsections = <<>>
    /\ trun = 1
    /\ tseed \in Seeds
    /\ tfirst = NoOutcome

\* process_emails_into_themes, stage 1.  An email whose scoring raises ends
\* the stage and the pipeline: process_emails_into_themes raises ValueError,
\* which store_digest_in_database logs.
TAnalyse ==
    /\ tpc = "start"
    /\ IF \E i \in 1..Len(temails) : Raises(temails[i])
       THEN /\ tpc' = "raised"
            /\ UNCHANGED tclusters
       ELSE /\ tclusters' = PerformNlpAnalysis(temails)
            /\ tpc' = "analysed"
    /\ UNCHANGED <<temails, tsummaries, tsections, trun, tseed, tfirst>>
    /\ UNCHANGED notThemeVars

\* process_emails_into_themes, stage 2: generate_theme_summary raises for
\* some of the clusters.
TSummarise ==
    /\ tpc = "analysed"
    /\ \E failed \in SUBSET (1..Len(tclusters)) :
          tsummaries' = GenerateThematicSummaries(tclusters, failed)
    /\ tpc' = "summarised"
    /\ UNCHANGED <<temails, tclusters, tsections, trun, tseed, tfirst>>
    /\ UNCHANGED notThemeVars

\* process_emails_into_themes, stage 3: store_thematic_digest writes the
\* sections and commits, or fails, rolls back and returns 999.
TStore ==
    /\ tpc = "summarised"
    /\ \/ /\ tsections' = [i \in 1..Len(tsummaries) |-> SectionRow(tsummaries, i)]
          /\ tpc' = "stored"
       \/ /\ tsections' = <<>>
          /\ tpc' = "failed"
    /\ UNCHANGED <<temails, tclusters, tsummaries, trun, tseed, tfirst>>
    /\ UNCHANGED notThemeVars

\* A cluster, a section, with the number of the row in the run for each id.
ClusterByRow(c, run) ==
    [theme |-> c.theme, keywords |-> c.keywords, confidence |-> c.confidence,
     emails |-> [k \in 1..Len(c.emails) |-> c.emails[k].id - RowId(run, 0)]]

SectionByRow(x, run) ==
    [theme |-> x.theme, summary |-> x.summary, confidence |-> x.confidence,
     keywords |-> x.keywords, order |-> x.order,
     links |-> {[digest_email_id |-> l.digest_email_id - RowId(run, 0),
                 relevance_score |-> l.relevance_score] : l \in x.links}]

\* What a generation gave.
Outcome ==
    [clusters |-> [i \in 1..Len(tclusters) |-> ClusterByRow(tclusters[i], trun)],
     sections |-> [i \in 1..Len(tsections) |-> SectionByRow(tsections[i], trun)],
     failed |-> {i \in 1..Len(tsummaries) : tsummaries[i].summary.kind = "template"},
     seed |-> tseed]

\* The date's digest is regenerated from the same messages, in another
\* process: the digest-email rows are inserted again and get new ids.
TAgain ==
    /\ tpc = "stored"
    /\ trun = 1
    /\ tfirst' = Outcome
    /\ trun' = 2
    /\ tseed' \in Seeds
    /\ temails' = [i \in 1..Len(temails) |-> WithId(temails[i], RowId(2, i))]
    /\ tclusters' = <<>>
    /\ tsummaries' = <<>>
    /\ tsections' = <<>>
    /\ tpc' = "start"
    /\ UNCHANGED notThemeVars

ThemeNext ==
    \/ TAnalyse
    \/ TSummarise
    \/ TStore
    \/ TAgain

ThemeOnlyInit ==
    /\ ThemeInit
    /\ HistInit
    /\ tokenStore = [u \in Users |-> NoToken]
    /\ WorkerIdle
    /\ FetchIdle
    /\ ExtractIdle
    /\ CleanIdle
    /\ RateIdle

SpecThemes == ThemeOnlyInit /\ [][ThemeNext]_vars

(***************************************************************************)
(* Properties of the classification.                                       *)
(***************************************************************************)
\* The clusters have been computed.
Analysed == tpc \in {"analysed", "summarised", "stored", "failed"}

\* Email e is among the emails of cluster c.
InCluster(e, c) == \E k \in 1..Len(c.emails) : c.emails[k] = e

\* Email e is a member of the cluster of category C.
MemberOf(e, C) ==
    \E i \in 1..Len(tclusters) : tclusters[i].theme = C /\ InCluster(e, tclusters[i])

Inputs == {temails[i] : i \in 1..Len(temails)}

NamedCategories == Categories \ {"Other"}

\* C17: an email is a member of the cluster of a named category exactly
\* when its fit score for the category exceeds 30, so an email that exceeds
\* 30 in k categories is in all k clusters.
C17_MemberIffScoreAbove30 ==
    Analysed =>
        \A e \in Inputs : \A C \in NamedCategories :
            MemberOf(e, C) <=> CategoryFitScore(e, C) > 30

\* An email in the clusters of two named categories next to an email whose
\* score of 30 keeps it out of its category.
C17_Witness ==
    /\ Analysed
    /\ \E e \in Inputs : MemberOf(e, "Politics") /\ MemberOf(e, "Sports")
    /\ \E e \in Inputs : CategoryFitScore(e, "Politics") = 30 /\ ~MemberOf(e, "Politics")

\* Email e scores at most 30 in every category.
FitsNowhere(e) == \A C \in Categories : CategoryFitScore(e, C) <= 30

\* C18: no email is lost: each is in at least one cluster; an email that
\* scores at most 30 everywhere is in 'Other' and nowhere else; an 'Other'
\* cluster made of such emails only has confidence 60.
C18_NoEmailLost ==
    Analysed =>
        /\ \A e \in Inputs : \E C \in Categories : MemberOf(e, C)
        /\ \A e \in Inputs :
              FitsNowhere(e) => \A C \in Categories : MemberOf(e, C) <=> C = "Other"
        /\ \A i \in 1..Len(tclusters) :
              /\ tclusters[i].theme = "Other"
              /\ \A e \in Inputs : InCluster(e, tclusters[i]) => FitsNowhere(e)
              => tclusters[i].confidence = 60

\* A classified email and an email that fits nowhere: the second one makes
\* the 'Other' cluster, with confidence 60.
C18_Witness ==
    /\ Analysed
    /\ Len(tclusters) = 2
    /\ \E i \in 1..2 :
          /\ tclusters[i].theme = "Other"
          /\ tclusters[i].confidence = 60
          /\ \E e \in Inputs : FitsNowhere(e) /\ tclusters[i].emails = <<e>>

\* c is a nearest integer of total / n clamped to [60, 95].
NearestClampedMean(c, total, n) ==
    IF total >= 95 * n THEN c = 95
    ELSE IF total <= 60 * n THEN c = 60
    ELSE 2 * (n * c - total) <= n /\ 2 * (total - n * c) <= n

\* C19: the confidence of every cluster is an integer of [60, 95], the mean
\* fit score of the cluster's emails for the cluster's category clamped to
\* [60, 95] and rounded, for 'Other' after the merge as well.
C19_ConfidenceIsClampedMean ==
    Analysed =>
        \A i \in 1..Len(tclusters) :
            /\ tclusters[i].confidence \in 60..95
            /\ NearestClampedMean(tclusters[i].confidence,
                                  TotalScore(tclusters[i].emails, tclusters[i].theme),
                                  Len(tclusters[i].emails))

Relevance(c) == Len(c.emails) * c.confidence

\* C20: the clusters come sorted by member count times confidence, largest
\* first, the member count being the one after the merge into 'Other'; the
\* sections written have the orders 1..k in that sequence.
C20_SortedByCountTimesConfidence ==
    /\ Analysed =>
          \A i \in 1..Len(tclusters) : \A j \in 1..Len(tclusters) :
              i < j => Relevance(tclusters[i]) >= Relevance(tclusters[j])
    /\ tpc = "stored" =>
          /\ Len(tsections) = Len(tclusters)
          /\ \A i \in 1..Len(tsections) :
                /\ tsections[i].order = i
                /\ tsections[i].theme = tclusters[i].theme
                /\ tsections[i].confidence = tclusters[i].confidence

\* Sections are stored with 'Sports' before 'Politics', against the order
\* of the categories.
C20_Witness ==
    /\ tpc = "stored"
    /\ Len(tsections) = 2
    /\ tsections[1].theme = "Sports" /\ tsections[1].order = 1
    /\ tsections[2].theme = "Politics" /\ tsections[2].order = 2
    /\ Relevance(tclusters[1]) > Relevance(tclusters[2])

\* The keywords of category C that occur in the text of email e, in its
\* subject, in one of its topics.
Matched(e, C) ==
    {k \in {category_keywords[C][i] : i \in 1..Len(category_keywords[C])} :
        Contains(Lower(Spell(k)), EmailText(e))}

MatchedInSubject(e, C) ==
    {k \in Matched(e, C) : Contains(Lower(Spell(k)), Lower(e.subject))}

MatchedInTopic(e, C) ==
    {k \in Matched(e, C) :
        \E i \in 1..Len(e.topics) : Contains(Lower(Spell(k)), Lower(e.topics[i]))}

SenderBonus(e, C) == GetSenderCategoryBonus(e.sender, category_keywords[C])

\* C23: the fit score of an email for a category is min(100, S + B): S is
\* 10 for each keyword of the category in the email's text, 15 more for
\* each of them in the subject and 10 more for each of them in a topic; B
\* is the sender bonus, at most 20.  With no keyword in the text the score
\* is B and the email is not in the cluster of the category.
C23_FitScore ==
    tpc = "analysed" =>
        \A e \in Inputs : \A C \in Categories :
            /\ CategoryFitScore(e, C) =
                  Min(100, 10 * Cardinality(Matched(e, C))
                           + 15 * Cardinality(MatchedInSubject(e, C))
                           + 10 * Cardinality(MatchedInTopic(e, C))
                           + SenderBonus(e, C))
            /\ SenderBonus(e, C) <= 20
            /\ Matched(e, C) = {} =>
                  /\ CategoryFitScore(e, C) = SenderBonus(e, C)
                  /\ C \in NamedCategories => ~MemberOf(e, C)

\* An email with no politics keyword and the bonus of a news outlet, which
\* is not in the politics cluster, next to an email whose points pass 100.
C23_Witness ==
    /\ Analysed
    /\ \E e \in Inputs :
          /\ Matched(e, "Politics") = {}
          /\ CategoryFitScore(e, "Politics") = 20
          /\ CategoryFitScore(e, "Business + Finance") = 15
          /\ ~MemberOf(e, "Politics")
    /\ \E e \in Inputs :
          /\ 10 * Cardinality(Matched(e, "Politics")) + SenderBonus(e, "Politics") = 50
          /\ CategoryFitScore(e, "Politics") = 100

\* The email of the run with the given id.
EmailById(id) == temails[CHOOSE i \in 1..Len(temails) : temails[i].id = id]

RawKeywords(keywords) == {keywords[i] : i \in 1..Len(keywords)}

\* c is a nearest integer of 100 * |E \cap T| / max(|E|, |T|), and 50 when
\* E and T are empty.
IsRelevanceOf(c, E, T) ==
    LET total == Max(Cardinality(E), Cardinality(T))
        overlap == 100 * Cardinality(E \cap T)
    IN  IF total = 0 THEN c = 50
        ELSE 2 * (total * c - overlap) <= total /\ 2 * (overlap - total * c) <= total

\* C21, as stated: the relevance score of a source link is
\* round(100 * |E \cap T| / max(|E|, |T|)) for the set E of the email's
\* keywords and the set T of the section's keywords, 50 when both are empty,
\* and an integer of [0, 100].
C21_RelevanceOfKeywordSets ==
    tpc = "stored" =>
        \A i \in 1..Len(tsections) : \A l \in tsections[i].links :
            /\ l.relevance_score \in 0..100
            /\ IsRelevanceOf(l.relevance_score,
                             RawKeywords(EmailById(l.digest_email_id).keywords),
                             RawKeywords(tsections[i].keywords))

\* C21, with the sets taken without regard to case: E and T are the sets of
\* the lower-cased keywords of the email and of the section.
C21_RelevanceOfLowerCasedSets ==
    tpc = "stored" =>
        \A i \in 1..Len(tsections) : \A l \in tsections[i].links :
            /\ l.relevance_score \in 0..100
            /\ IsRelevanceOf(l.relevance_score,
                             KeywordSet(EmailById(l.digest_email_id).keywords),
                             KeywordSet(tsections[i].keywords))

\* A regenerated digest with a section whose keywords hold the same word
\* in two cases, and a source email of one keyword out of the section's
\* three: relevance 33.
C21_Witness ==
    /\ tpc = "stored"
    /\ trun = 2
    /\ \E i \in 1..Len(tsections) : \E l \in tsections[i].links :
          /\ Cardinality(RawKeywords(tsections[i].keywords)) = 4
          /\ Cardinality(KeywordSet(tsections[i].keywords)) = 3
          /\ Cardinality(KeywordSet(EmailById(l.digest_email_id).keywords)) = 1
          /\ l.relevance_score = 33

C25_ClassificationErrorToOther ==
    /\ tpc # "start"
    /\ \E i \in 1..Len(temails) : Raises(temails[i])
    => /\ Analysed
       /\ \A e \in Inputs :
             IF Raises(e) THEN MemberOf(e, "Other")
             ELSE \A C \in NamedCategories :
                      MemberOf(e, C) <=> CategoryFitScore(e, C) > 30

\* The synthesis of cluster i failed.
Failed(i) == tsummaries[i].summary.kind = "template"

\* C28: every cluster has emails and yields exactly one section, so there
\* are as many stored sections as clusters, also when the synthesis fails
\* for a cluster: the section of that cluster carries the fallback summary,
\* made of the number of members, the theme and the first three keywords,
\* with the theme, keywords and confidence of the cluster, and the sections
\* of the other clusters are what they are when no synthesis fails.
C28_OneSectionPerCluster ==
    tpc = "stored" =>
        /\ Len(tsections) = Len(tclusters)
        /\ \A i \in 1..Len(tclusters) :
              /\ tclusters[i].emails # <<>>
              /\ tsections[i].theme = tclusters[i].theme
              /\ tsections[i].keywords = tclusters[i].keywords
              /\ tsections[i].confidence = tclusters[i].confidence
              /\ {l.digest_email_id : l \in tsections[i].links}
                    = {tclusters[i].emails[k].id : k \in 1..Len(tclusters[i].emails)}
              /\ IF Failed(i)
                 THEN /\ tsections[i].summary.kind = "template"
                      /\ tsections[i].summary.count = Len(tclusters[i].emails)
                      /\ tsections[i].summary.theme = tclusters[i].theme
                      /\ tsections[i].summary.topics =
                            SubSeq(tclusters[i].keywords, 1,
                                   Min(3, Len(tclusters[i].keywords)))
                 ELSE tsections[i] =
                          SectionRow(GenerateThematicSummaries(tclusters, {}), i)

\* Two clusters, the synthesis failed for the first one only; two sections.
C28_Witness ==
    /\ tpc = "stored"
    /\ Len(tclusters) = 2
    /\ Failed(1) /\ ~Failed(2)
    /\ Len(tsections) = 2
    /\ tsections[1].summary.kind = "template"
    /\ tsections[2].summary.kind = "narrative"

(***************************************************************************)
(* Properties of the order of the stages of sb-make-history.py's run().    *)
(***************************************************************************)
\* The digest row of the date the run is at is committed.
DigestCommitted == \E r \in db.digests : r.id = DigestId(runNo, day)

\* C24: the stages of a date run in the order fetch, extract, classify,
\* persist: while the classification of the date's emails has not been
\* done, no digest row and no digest-email row of the run is committed;
\* and a date with a failed stage is not reported as done.
C24_ClassifyBeforePersist ==
    /\ hpc = "thematic" =>
          /\ ~DigestCommitted
          /\ \A r \in db.emails : r.did # DigestId(runNo, day)
    /\ failedAt # "none" => outcome # "success"

(***************************************************************************)
(* Properties of the online version.                                       *)
(***************************************************************************)
\* The request of the online version failed.
FetchFailed ==
    \/ xresp.kind \in {"exception", "timeout"}
    \/ xresp.kind = "status" /\ xresp.status # 200

\* C27: when the request of the online version fails (exception, timeout,
\* status other than 200) the extraction returns, and what it returns is
\* the result of the structural extraction of the email's own HTML.
C27_FetchFailureFallsBack ==
    /\ FetchFailed => xpc \in {"email", "converted", "returned"}
    /\ FetchFailed /\ xpc = "returned" =>
          /\ xsrc = "email"
          /\ xout = QualityGate(xraw.final, xraw.basic)

\* The online version answered 404 with a page of its own; the text
\* returned is the email's.
C27_Witness ==
    /\ xpc = "returned"
    /\ xresp.kind = "status" /\ xresp.status = 404
    /\ xresp.page.final.len = TooShort
    /\ xraw.final.len = TooShort + 1
    /\ xout = xraw.final

\* C29: an extraction requests an online version at most once, the page
\* fetched is not searched for a link in turn, and the extraction ends.
C29_AtMostOneFetch ==
    /\ [](xfetches <= 1)
    /\ [](xsrc = "online" => xfetches = 1 /\ xpc # "fetch")
    /\ <>(xpc = "returned")

\* The online version is a page that links to itself; it was fetched once
\* and its text is returned.
C29_Witness ==
    /\ xpc = "returned"
    /\ xfetches = 1
    /\ xsrc = "online"
    /\ xresp.page.link
    /\ xout = xresp.page.final

(***************************************************************************)
(* content_extractor.py: ContentExtractor._clean_text_content.  A text is  *)
(* a sequence of tokens: words, markers and phrases with white space       *)
(* between them, and newlines.                                             *)
(***************************************************************************)
NL == "\n"

QuoteMarker == ">"

SeparatorLine == "---"

Boilerplate ==
    {"Click here to view", "This email was sent to", "You received this", "To unsubscribe"}

\* The lines a text can hold: a line of text, a line with a bracketed
\* artifact, a quoted line, a boilerplate line, a separator line, a blank
\* line.
LineKinds ==
    {<<"a">>, <<"b", "[", "x", "]">>, <<QuoteMarker, "q">>, <<"To unsubscribe", "u">>,
     <<SeparatorLine>>, <<>>}

Texts == UNION {[1..n -> LineKinds] : n \in 1..MaxLines}

\* re.sub(r'\s+', ' ', text): every run of white space, newlines included,
\* becomes one space.
CollapseWhitespace(t) == SelectSeq(t, LAMBDA x : x # NL)

\* re.sub(r'\n\s*\n\s*\n+', '\n\n', text).
RECURSIVE CollapseNewlines(_)
CollapseNewlines(t) ==
    IF t = <<>> THEN <<>>
    ELSE IF Len(t) >= 3 /\ t[1] = NL /\ t[2] = NL /\ t[3] = NL
         THEN CollapseNewlines(Tail(t))
         ELSE <<Head(t)>> \o CollapseNewlines(Tail(t))

\* re.sub(r'^\n+|\n+$', '', text), and str.strip() of a text of tokens.
RECURSIVE StripNewlines(_)
StripNewlines(t) ==
    IF t # <<>> /\ Head(t) = NL THEN StripNewlines(Tail(t))
    ELSE IF t # <<>> /\ t[Len(t)] = NL THEN StripNewlines(SubSeq(t, 1, Len(t) - 1))
    ELSE t

\* re.sub(r'\[.*?\]', '', text) and re.sub(r'\|.*?\|', '', text): from an
\* opening token to the next closing one of the same line.
RECURSIVE RemoveDelimited(_, _, _)
RemoveDelimited(t, open, close) ==
    IF t = <<>> THEN <<>>
    ELSE LET ends == {j \in 2..Len(t) :
                         /\ t[j] = close
                         /\ \A k \in 2..(j - 1) : t[k] # close /\ t[k] # NL}
         IN  IF Head(t) = open /\ ends # {}
             THEN RemoveDelimited(SubSeq(t, 1 + CHOOSE j \in ends : TRUE, Len(t)),
                                  open, close)
             ELSE <<Head(t)>> \o RemoveDelimited(Tail(t), open, close)

\* text.split('\n').
RECURSIVE Split(_)
Split(t) ==
    IF \A i \in 1..Len(t) : t[i] # NL THEN <<t>>
    ELSE LET i == CHOOSE k \in 1..Len(t) : t[k] = NL /\ \A j \in 1..(k - 1) : t[j] # NL
         IN  <<SubSeq(t, 1, i - 1)>> \o Split(SubSeq(t, i + 1, Len(t)))

\* The substitutions with re.MULTILINE, on one line: a line that begins
\* with '>' goes, a boilerplate phrase goes with the rest of its line, a
\* line of separator characters goes.
CleanLine(line) ==
    IF line # <<>> /\ Head(line) = QuoteMarker THEN <<>>
    ELSE LET at == {i \in 1..Len(line) : line[i] \in Boilerplate}
             cut == IF at = {} THEN line
                    ELSE SubSeq(line, 1, (CHOOSE i \in at : \A j \in at : i <= j) - 1)
         IN  IF cut = <<SeparatorLine>> THEN <<>> ELSE cut

\* _clean_text_content.
CleanTextContent(text) ==
    IF text = <<>> THEN <<>>
    ELSE LET spaced == CollapseWhitespace(text)
             lines == Split(StripNewlines(CollapseNewlines(spaced)))
             bare == RemoveDelimited(RemoveDelimited(Join(lines, <<NL>>), "[", "]"),
                                     "|", "|")
             kept == Split(bare)
         IN  StripNewlines(Join([i \in 1..Len(kept) |-> CleanLine(kept[i])], <<NL>>))

CleanInit ==
    /\ cpc = "start"
    /\ clines \in Texts
    /\ cout = <<>>

\* _clean_text_content of the text made of the lines.
CClean ==
    /\ cpc = "start"
    /\ cout' = CleanTextContent(Join(clines, <<NL>>))
    /\ cpc' = "done"
    /\ UNCHANGED clines
    /\ UNCHANGED notCleanVars

CleanNext == CClean

CleanOnlyInit ==
    /\ CleanInit
    /\ HistInit
    /\ tokenStore = [u \in Users |-> NoToken]
    /\ WorkerIdle
    /\ FetchIdle
    /\ ExtractIdle
    /\ ThemeIdle
    /\ RateIdle

SpecClean == CleanOnlyInit /\ [][CleanNext]_vars

\* A line the normalization may drop: a quoted line, a boilerplate line, a
\* separator line.
Droppable(line) ==
    \/ line # <<>> /\ Head(line) = QuoteMarker
    \/ \E i \in 1..Len(line) : line[i] \in Boilerplate
    \/ line = <<SeparatorLine>>

\* The text of a line without its bracketed and pipe-delimited artifacts.
TextOf(line) == RemoveDelimited(RemoveDelimited(line, "[", "]"), "|", "|")

\* C26: the normalization drops a line only if it begins with a quote
\* marker, matches a boilerplate phrase or is a separator line: the text of
\* every other line is in the result; and two lines of text with three or
\* more blank lines between them have exactly one blank line between them
\* in the result.
C26_OnlyMarkedLinesDropped ==
    cpc = "done" =>
        /\ \A i \in 1..Len(clines) :
              ~Droppable(clines[i]) => Contains(TextOf(clines[i]), cout)
        /\ \A i \in 1..Len(clines) : \A j \in 1..Len(clines) :
              /\ j >= i + 4
              /\ clines[i] # <<>> /\ ~Droppable(clines[i])
              /\ clines[j] # <<>> /\ ~Droppable(clines[j])
              /\ \A k \in (i + 1)..(j - 1) : clines[k] = <<>>
              => Contains(TextOf(clines[i]) \o <<NL, NL>> \o TextOf(clines[j]), cout)

(***************************************************************************)
(* api-gateway/middleware.py: RateLimitMiddleware.                         *)
(***************************************************************************)
\* minute_ago = current_time - 60
Window == 60

\* The instants at which requests arrive, in seconds.
Instants == {0, 1, Window, Window + 1, 2 * Window}

ExemptPaths == {"/health", "/docs", "/openapi.json"}

Paths == ExemptPaths \cup {"/api/digest"}

\* A request: its path, its X-Forwarded-For and X-Real-IP headers and the
\* host of its client, empty when missing.
Request(path, forwarded, real, host) ==
    [path |-> path, forwarded |-> forwarded, real |-> real, host |-> host]

\* The clients that send requests: one directly, one behind a proxy that
\* forwards its address, one behind a proxy that sets X-Real-IP, and a
\* request without client.
Senders ==
    {Request("", <<>>, <<>>, <<"1">>),
     Request("", <<" ", "1", ",", "9">>, <<>>, <<"9">>),
     Request("", <<>>, <<"2">>, <<"9">>),
     Request("", <<>>, <<>>, <<>>)}

Requests ==
    {Request(p, c.forwarded, c.real, c.host) : p \in Paths, c \in Senders}

\* forwarded_for.split(",")[0]
FirstField(h) ==
    IF \A i \in 1..Len(h) : h[i] # ","
    THEN h
    ELSE SubSeq(h, 1, (CHOOSE i \in 1..Len(h) :
                          h[i] = "," /\ \A j \in 1..(i - 1) : h[j] # ",") - 1)

\* _get_client_ip.
GetClientIp(request) ==
    IF request.forwarded # <<>> THEN Strip(FirstField(request.forwarded))
    ELSE IF request.real # <<>> THEN request.real
    ELSE IF request.host # <<>> THEN request.host
    ELSE Unknown

\* A request that is exactly one minute old is old.
IsOldAtOneMinute(t, minute_ago) == t <= minute_ago

\* dispatch: client_requests[0] < minute_ago
IsOld(t, minute_ago) == t < minute_ago

\* dispatch: the loop that removes the old requests from the left.
RECURSIVE CleanOld(_, _)
CleanOld(client_requests, minute_ago) ==
    IF client_requests # <<>> /\ IsOld(Head(client_requests), minute_ago)
    THEN CleanOld(Tail(client_requests), minute_ago)
    ELSE client_requests

Served(request, client, status) ==
    [path |-> request.path, client |-> client, at |-> rnow, status |-> status]

RateInit ==
    /\ rnow = 0
    /\ rrequests = [c \in ClientKeys |-> <<>>]
    /\ radmitted = <<>>
    /\ rlast = NoRequest
    /\ rcount = 0

\* time.time() moves on.
RTick ==
    /\ \E t \in Instants : t > rnow /\ rnow' = t
    /\ UNCHANGED <<rrequests, radmitted, rlast, rcount>>
    /\ UNCHANGED notRateVars

\* dispatch, of one request.
RDispatch ==
    /\ rcount < MaxRequests
    /\ rcount' = rcount + 1
    /\ \E request \in Requests :
          IF request.path \in ExemptPaths
          THEN /\ rlast' = Served(request, GetClientIp(request), 200)
               /\ UNCHANGED <<rrequests, radmitted>>
          ELSE LET client_ip == GetClientIp(request)
                   client_requests == CleanOld(rrequests[client_ip], rnow - Window)
               IN  IF Len(client_requests) >= requests_per_minute
                   THEN /\ rrequests' = [rrequests EXCEPT ![client_ip] = client_requests]
                        /\ rlast' = Served(request, client_ip, 429)
                        /\ UNCHANGED radmitted
                   ELSE /\ rrequests' = [rrequests EXCEPT ![client_ip] =
                                            Append(client_requests, rnow)]
                        /\ rlast' = Served(request, client_ip, 200)
                        /\ radmitted' = Append(radmitted, rlast')
    /\ UNCHANGED rnow
    /\ UNCHANGED notRateVars

RateNext ==
    \/ RTick
    \/ RDispatch

RateOnlyInit ==
    /\ RateInit
    /\ HistInit
    /\ tokenStore = [u \in Users |-> NoToken]
    /\ WorkerIdle
    /\ FetchIdle
    /\ ExtractIdle
    /\ ThemeIdle
    /\ CleanIdle

SpecRate == RateOnlyInit /\ [][RateNext]_vars

\* The counted requests of a client admitted from t to t + Window.
AdmittedIn(client, t) ==
    {i \in 1..Len(radmitted) :
        /\ radmitted[i].client = client
        /\ radmitted[i].at >= t
        /\ radmitted[i].at <= t + Window}

\* The times of the counted requests of a client that are on record.
Recorded(requests, client) == {requests[client][i] : i \in 1..Len(requests[client])}

\* C30: for every client and every window of 60 seconds, at most
\* requests_per_minute requests of the client are admitted in the window; a
\* request answered 429 is not passed on and adds nothing to the record of
\* any client; a request to /health, /docs or /openapi.json is admitted and
\* leaves the record as it is.
C30_RateLimit ==
    /\ [](\A c \in ClientKeys : \A t \in 0..(2 * Window) :
             Cardinality(AdmittedIn(c, t)) <= requests_per_minute)
    /\ [][rcount' # rcount /\ rlast'.status = 429 =>
             /\ radmitted' = radmitted
             /\ \A c \in ClientKeys :
                   /\ Len(rrequests'[c]) <= Len(rrequests[c])
                   /\ Recorded(rrequests', c) \subseteq Recorded(rrequests, c)]_vars
    /\ [][rcount' # rcount /\ rlast'.path \in ExemptPaths =>
             /\ rlast'.status = 200
             /\ radmitted' = radmitted
             /\ rrequests' = rrequests]_vars

\* A client had its two requests of a minute, was refused a third one at
\* the end of that minute and then served /health.
C30_Witness ==
    /\ rnow = Window
    /\ Len(rrequests[<<"1">>]) = requests_per_minute
    /\ rrequests[<<"1">>][1] = 0
    /\ rcount = requests_per_minute + 2
    /\ Len(radmitted) = requests_per_minute
    /\ rlast.path = "/health"
    /\ rlast.client = <<"1">>
    /\ rlast.status = 200

====
